---------------------------- MODULE Spec2Model ----------------------------
(**************************************************************************)
(* Zinkd: the map generator (lib/map.rs), player movement (lib/player.rs),  *)
(* dice and items (lib/dice.rs, lib/items.rs) and the turns of the game    *)
(* (src/game.rs) as state machines.                                        *)
(*                                                                         *)
(* Coordinates(x, y) is the pair <<x, y>> with 0-based components; the     *)
(* grid is indexed grid[y][x] as in the source.  A GridCell is a record    *)
(* [kind, exits, item]: kind is "Wall", "Path" or "Goal", exits is the u8  *)
(* exit mask (0 for a Wall), item is 0 for None and an item id otherwise.  *)
(**************************************************************************)
EXTENDS Integers, Sequences, FiniteSets, TLC

VARIABLES
    width,            \* map_width argument  = Map::width()
    height,           \* map_height argument = Map::height()
    players,          \* players argument of generate_random_map
    item_density,     \* item_density argument, in percent
    travel_distance,  \* travel_distance argument
    grid,             \* Map.grid
    goal,             \* Map.goal
    starting_points,  \* Map.starting_points
    pc,               \* position inside generate_random_map / the caller
    start,            \* local `start` of the player loop
    pending,          \* supplement_cell calls the running connect_cells still makes
    cell,             \* local `cell` of get_random_empty_cell
    square1,          \* local `square1` of the item loop
    square2,          \* local `square2` of the item loop
    pairs_done,       \* iterations of the item loop completed
    position,         \* Player.position, one per spawned player
    last_step,        \* the last Player::step / Coordinates::step call and its result
    items,            \* the items made by random_item, by item id
    inventory,        \* Player.inventory, one per player: the ids of the held items
    dice,             \* Player.die, one per player: the six weights
    moves,            \* Player.moves, one per player
    game_state,       \* the GameState resource
    rolled,           \* the last call on a WeightedDie and what roll returned
    used              \* number of items used so far

vars == <<width, height, players, item_density, travel_distance, grid, goal,
          starting_points, pc, start, pending, cell, square1, square2,
          pairs_done, position, last_step, items, inventory, dice, moves,
          game_state, rolled, used>>

genVars == <<grid, goal, starting_points, start, pending, cell, square1,
             square2, pairs_done>>

argVars == <<width, height, players, item_density, travel_distance>>

playVars == <<items, inventory, dice, moves, game_state, rolled, used>>

--------------------------------------------------------------------------
(* Bounds of the model *)

MapWidth == 3

MapHeight == 3

MaxItemPairs == 1

--------------------------------------------------------------------------
(* Settings: src/settings.rs *)

\* settings_ui: the least number of players the slider offers
MinPlayers == 2

--------------------------------------------------------------------------
(* Directions: lib/map.rs 40-59 *)

NORTH == 1

SOUTH == 2

EAST == 4

WEST == 8

Cardinals == {NORTH, SOUTH, EAST, WEST}

\* direction & mask != 0, for a single cardinal bit
HasBit(mask, bit) == (mask \div bit) % 2 = 1

\* a | b on exit masks
BitOr(a, b) ==
    LET Bit(d) == IF HasBit(a, d) \/ HasBit(b, d) THEN d ELSE 0
    IN  Bit(NORTH) + Bit(SOUTH) + Bit(EAST) + Bit(WEST)

\* a & b on exit masks
BitAnd(a, b) ==
    LET Bit(d) == IF HasBit(a, d) /\ HasBit(b, d) THEN d ELSE 0
    IN  Bit(NORTH) + Bit(SOUTH) + Bit(EAST) + Bit(WEST)

Min(a, b) == IF a < b THEN a ELSE b

Max(a, b) == IF a > b THEN a ELSE b

--------------------------------------------------------------------------
(* GridCell and Coordinates *)

Wall == [kind |-> "Wall", exits |-> 0, item |-> 0]

Path(direction, item) == [kind |-> "Path", exits |-> direction, item |-> item]

Goal(direction) == [kind |-> "Goal", exits |-> direction, item |-> 0]

NoCell == <<0, 0>>

CellsOf(w, h) == (0 .. w - 1) \X (0 .. h - 1)

Cells == CellsOf(width, height)

\* Map::cell_at
CellAt(g, c) == g[c[2]][c[1]]

\* Map::set_cell
SetCell(g, c, new) == [g EXCEPT ![c[2]][c[1]] = new]

\* A slip in Coordinates::step: the far edges are tested one cell too late
CoordinatesStepLateEdge(c, direction, w, h) ==
    CASE direction = NORTH ->
            IF c[2] >= h THEN [ok |-> FALSE, at |-> c]
            ELSE [ok |-> TRUE, at |-> <<c[1], c[2] + 1>>]
      [] direction = SOUTH ->
            IF c[2] = 0 THEN [ok |-> FALSE, at |-> c]
            ELSE [ok |-> TRUE, at |-> <<c[1], c[2] - 1>>]
      [] direction = EAST ->
            IF c[1] >= w THEN [ok |-> FALSE, at |-> c]
            ELSE [ok |-> TRUE, at |-> <<c[1] + 1, c[2]>>]
      [] direction = WEST ->
            IF c[1] = 0 THEN [ok |-> FALSE, at |-> c]
            ELSE [ok |-> TRUE, at |-> <<c[1] - 1, c[2]>>]

\* Coordinates::step: the returned flag and the coordinates afterwards
CoordinatesStep(c, direction, w, h) ==
    CASE direction = NORTH ->
            IF c[2] >= h - 1 THEN [ok |-> FALSE, at |-> c]
            ELSE [ok |-> TRUE, at |-> <<c[1], c[2] + 1>>]
      [] direction = SOUTH ->
            IF c[2] = 0 THEN [ok |-> FALSE, at |-> c]
            ELSE [ok |-> TRUE, at |-> <<c[1], c[2] - 1>>]
      [] direction = EAST ->
            IF c[1] >= w - 1 THEN [ok |-> FALSE, at |-> c]
            ELSE [ok |-> TRUE, at |-> <<c[1] + 1, c[2]>>]
      [] direction = WEST ->
            IF c[1] = 0 THEN [ok |-> FALSE, at |-> c]
            ELSE [ok |-> TRUE, at |-> <<c[1] - 1, c[2]>>]

--------------------------------------------------------------------------
(* Carving *)

\* A slip in supplement_cell: every cell is overwritten by a fresh Path
SupplementCellOverwrite(g, c, direction) ==
    SetCell(g, c, [kind |-> "Path", exits |-> direction, item |-> 0])

\* Map::supplement_cell
SupplementCell(g, c, direction) ==
    LET old == CellAt(g, c)
    IN  IF old.kind = "Wall"
        THEN SetCell(g, c, Path(direction, 0))
        ELSE SetCell(g, c, [old EXCEPT !.exits = BitOr(old.exits, direction)])

\* The supplement_cell calls of Map::straight_path over lo..hi (hi excluded)
RECURSIVE StraightPath(_, _, _, _)
StraightPath(lo, hi, x_range, fixed_coord) ==
    IF lo >= hi THEN <<>>
    ELSE LET node == IF x_range THEN <<lo, fixed_coord>> ELSE <<fixed_coord, lo>>
             direction == IF x_range THEN BitOr(EAST, WEST) ELSE BitOr(NORTH, SOUTH)
         IN  <<[at |-> node, dir |-> direction]>>
                 \o StraightPath(lo + 1, hi, x_range, fixed_coord)

\* connect_cells, map.rs 254-274: the calls of the horizontal leg
ConnectFirst(s, e) ==
    LET x0 == s[1]
        y0 == s[2]
        x1 == e[1]
        y1 == e[2]
    IN  IF x0 # x1
        THEN IF x0 < x1
             THEN <<[at |-> s, dir |-> EAST]>> \o StraightPath(x0 + 1, x1, TRUE, y0)
             ELSE <<[at |-> s, dir |-> WEST]>> \o StraightPath(x1 + 1, x0, TRUE, y0)
        ELSE IF y0 < y1
             THEN <<[at |-> s, dir |-> NORTH]>>
             ELSE <<[at |-> s, dir |-> SOUTH]>>

\* connect_cells: `corner` after the horizontal leg
CornerAfterFirst(s, e) ==
    IF s[1] # e[1] THEN (IF s[1] < e[1] THEN WEST ELSE EAST) ELSE 0

\* connect_cells: `corner` after the vertical leg
CornerAfterSecond(s, e) ==
    IF s[2] # e[2]
    THEN BitOr(CornerAfterFirst(s, e), IF s[2] < e[2] THEN NORTH ELSE SOUTH)
    ELSE 0

\* A slip in the vertical leg: the end cell is opened away from the corridor
ConnectSecondFlipped(s, e) ==
    LET x1 == e[1]
        y0 == s[2]
        y1 == e[2]
    IN  IF y0 # y1
        THEN IF y0 < y1
             THEN <<[at |-> e, dir |-> NORTH]>> \o StraightPath(y0 + 1, y1, FALSE, x1)
             ELSE <<[at |-> e, dir |-> SOUTH]>> \o StraightPath(y1 + 1, y0, FALSE, x1)
        ELSE <<[at |-> e, dir |-> CornerAfterFirst(s, e)]>>

\* connect_cells, map.rs 276-290: the calls of the vertical leg
ConnectSecond(s, e) ==
    LET x1 == e[1]
        y0 == s[2]
        y1 == e[2]
    IN  IF y0 # y1
        THEN IF y0 < y1
             THEN <<[at |-> e, dir |-> SOUTH]>> \o StraightPath(y0 + 1, y1, FALSE, x1)
             ELSE <<[at |-> e, dir |-> NORTH]>> \o StraightPath(y1 + 1, y0, FALSE, x1)
        ELSE <<[at |-> e, dir |-> CornerAfterFirst(s, e)]>>

\* A slip in connect_cells: the elbow cell is never supplemented
ConnectOpsNoCorner(s, e) ==
    IF s = e THEN <<>>
    ELSE ConnectFirst(s, e) \o ConnectSecond(s, e)

\* The supplement_cell calls of Map::connect_cells(start, end), in call order
ConnectOps(s, e) ==
    IF s = e THEN <<>>
    ELSE ConnectFirst(s, e) \o ConnectSecond(s, e)
             \o <<[at |-> <<e[1], s[2]>>, dir |-> CornerAfterSecond(s, e)]>>

\* Map::connect_cells as a whole
RECURSIVE ApplyOps(_, _)
ApplyOps(g, ops) ==
    IF ops = <<>> THEN g
    ELSE ApplyOps(SupplementCell(g, Head(ops).at, Head(ops).dir), Tail(ops))

ConnectCells(g, s, e) == ApplyOps(g, ConnectOps(s, e))

--------------------------------------------------------------------------
(* Random cells *)

\* Map::get_random_cell: every cell the two gen_range draws can yield
GetRandomCell == Cells

\* A slip in get_random_cell_with_distance: dy ignores the x offset
GetRandomCellWithDistanceFullDy(target, distance) ==
    LET x0 == target[1]
        y0 == target[2]
        x_low == IF x0 < distance THEN 0 ELSE x0 - distance
        x_high == IF x0 + distance < width - 1 THEN x0 + distance ELSE width - 1
        Outcomes(x) ==
            LET dy == distance
                below == [at |-> <<x, y0 - dy>>, overflow |-> y0 < dy]
                above == [at |-> <<x, y0 + dy>>, overflow |-> FALSE]
            IN  IF y0 + dy >= height THEN {below}
                ELSE IF y0 < dy THEN {above}
                ELSE {below, above}
    IN  UNION {Outcomes(x) : x \in x_low .. x_high}

\* Map::get_random_cell_with_distance: every outcome of its draws.  usize
\* subtraction below zero is flagged in `overflow` (y then holds the
\* mathematical difference): a debug build aborts on it, a release build
\* wraps to 2^64 - (dy - y0), a row index far outside the grid.
GetRandomCellWithDistance(target, distance) ==
    LET x0 == target[1]
        y0 == target[2]
        x_low == IF x0 < distance THEN 0 ELSE x0 - distance
        x_high == Min(x0 + distance, width - 1)
        Outcomes(x) ==
            LET dx == Max(x0, x) - Min(x0, x)
                dy == distance - dx
                below == [at |-> <<x, y0 - dy>>, overflow |-> y0 < dy]
                above == [at |-> <<x, y0 + dy>>, overflow |-> FALSE]
            IN  IF y0 + dy >= height THEN {below}
                ELSE IF y0 < dy THEN {above}
                ELSE {below, above}
    IN  UNION {Outcomes(x) : x \in x_low .. x_high}

\* (total_squares * item_density).round() as usize, density in percent
ItemSquares == (width * height * item_density + 50) \div 100

\* item_squares / 2: the iterations of the item loop
ItemPairs == ItemSquares \div 2

\* settings_ui: the largest selectable initial travel distance
MaxDist(w, h) == (Min(w, h) * 3) \div 4

\* Item densities of the settings slider [0, 0.8], in percent
DensityPercents == {0, 20, 40, 60, 80}

\* random_item(): items are told apart by the order of their creation
Item1(k) == 2 * k + 1

Item2(k) == 2 * k + 2

\* Map::place_item; the flag tells whether it panicked
PlaceItem(g, c, item) ==
    IF CellAt(g, c).kind = "Path"
    THEN [grid |-> SetCell(g, c, [CellAt(g, c) EXCEPT !.item = item]), panic |-> FALSE]
    ELSE [grid |-> g, panic |-> TRUE]

--------------------------------------------------------------------------
(* generate_random_map *)

NoStep == [kind |-> "none", player |-> 0, dir |-> 0, from |-> NoCell,
           ret |-> FALSE, at |-> NoCell]

\* game.rs 64-69: enum GameAction; Moving carries (Direction, u32)
WaitForInput == [kind |-> "WaitForInput", dir |-> 0, remaining |-> 0]

UsingItem == [kind |-> "UsingItem", dir |-> 0, remaining |-> 0]\* GameAction::Moving holding one step more than it was given
MovingOneMore(direction, remaining) ==
    [kind |-> "Moving", dir |-> direction, remaining |-> remaining + 1]

Moving(direction, remaining) ==
    [kind |-> "Moving", dir |-> direction, remaining |-> remaining]

HasMoved == [kind |-> "HasMoved", dir |-> 0, remaining |-> 0]

\* game.rs 88-95: ItemUsePreview::default(); effect <<>> is None and
\* <<before, after>> is Some(ItemEffect::DieTransform(before, after))
DefaultItemUsePreview ==
    [source_player |-> 0, item_index |-> 0, item_type |-> "WeightTransfer",
     target_player |-> 0, effect |-> <<>>]

\* game.rs 99-123: GameState::default(); players are numbered from 0 as in
\* the source, current_move 0 is None, rolled_value 0 is None
DefaultGameState ==
    [active_player |-> 0, current_action |-> WaitForInput,
     item_preview |-> DefaultItemUsePreview, inventory_visible |-> FALSE,
     rolled_value |-> 0, winners |-> <<>>, game_over |-> FALSE,
     current_move |-> 0]

NoRoll == [call |-> "none", sample |-> <<>>, value |-> 0]

\* No player, item or game exists yet
NoPlay ==
    /\ items = <<>>
    /\ inventory = <<>>
    /\ dice = <<>>
    /\ moves = <<>>
    /\ game_state = DefaultGameState
    /\ rolled = NoRoll
    /\ used = 0

InitArgs(w, h, ps, densities, distances) ==
    /\ NoPlay
    /\ width = w
    /\ height = h
    /\ players \in ps
    /\ item_density \in densities
    /\ travel_distance \in distances
    /\ grid = [y \in 0 .. h - 1 |-> [x \in 0 .. w - 1 |-> Wall]]
    /\ goal = <<0, 0>>
    /\ starting_points = <<>>
    /\ pc = "goal"
    /\ start = NoCell
    /\ pending = <<>>
    /\ cell = NoCell
    /\ square1 = NoCell
    /\ square2 = NoCell
    /\ pairs_done = 0
    /\ position = <<>>
    /\ last_step = NoStep

Init ==
    /\ InitArgs(MapWidth, MapHeight, {MinPlayers}, DensityPercents,
                1 .. MaxDist(MapWidth, MapHeight))
    /\ ItemPairs <= MaxItemPairs

\* map.rs 142-145: place the goal
PlaceGoal ==
    /\ pc = "goal"
    /\ \E c \in GetRandomCell :
          /\ goal' = c
          /\ grid' = SetCell(grid, c, Goal(0))
    /\ pc' = "starts"
    /\ UNCHANGED <<playVars, argVars, starting_points, start, pending, cell, square1,
                   square2, pairs_done, position, last_step>>

\* map.rs 148-150: draw a start and enter connect_cells(start, goal)
PickStart ==
    /\ pc = "starts"
    /\ Len(starting_points) < players
    /\ \E r \in GetRandomCellWithDistance(goal, travel_distance) :
          IF r.overflow
          THEN /\ pc' \in {"panic_overflow", "panic_index"}
               /\ UNCHANGED <<start, pending>>
          ELSE /\ start' = r.at
               /\ pending' = ConnectOps(r.at, goal)
               /\ pc' = "connect_start"
    /\ UNCHANGED <<playVars, argVars, grid, goal, starting_points, cell, square1, square2,
                   pairs_done, position, last_step>>

\* One supplement_cell call of the running connect_cells
Supplement ==
    /\ pc \in {"connect_start", "connect_items"}
    /\ pending # <<>>
    /\ grid' = SupplementCell(grid, Head(pending).at, Head(pending).dir)
    /\ pending' = Tail(pending)
    /\ UNCHANGED <<playVars, argVars, goal, starting_points, pc, start, cell, square1,
                   square2, pairs_done, position, last_step>>

\* map.rs 152: connect_cells has returned, record the start
PushStart ==
    /\ pc = "connect_start"
    /\ pending = <<>>
    /\ starting_points' = Append(starting_points, start)
    /\ pc' = "starts"
    /\ UNCHANGED <<playVars, argVars, grid, goal, start, pending, cell, square1, square2,
                   pairs_done, position, last_step>>

\* map.rs 155-158: the player loop is over; enter the item loop
BeginItems ==
    /\ pc = "starts"
    /\ Len(starting_points) = players
    /\ pc' = "items"
    /\ UNCHANGED <<playVars, argVars, genVars, position, last_step>>

\* map.rs 158, 206: first draw of get_random_empty_cell for square1
DrawSquare1 ==
    /\ pc = "items"
    /\ pairs_done < ItemPairs
    /\ cell' \in GetRandomCell
    /\ pc' = "empty1"
    /\ UNCHANGED <<playVars, argVars, grid, goal, starting_points, start, pending, square1,
                   square2, pairs_done, position, last_step>>

\* A slip in get_random_empty_cell: start cells are not excluded
EmptyCellLoop1KeepingStarts ==
    /\ pc = "empty1"
    /\ IF CellAt(grid, cell).kind = "Goal"
       THEN UNCHANGED <<cell, square1, pc>>
       ELSE /\ square1' = cell
            /\ cell' \in GetRandomCell
            /\ pc' = "empty2"
    /\ UNCHANGED <<playVars, argVars, grid, goal, starting_points, start, pending, square2,
                   pairs_done, position, last_step>>

\* map.rs 207-218: one iteration of the loop of get_random_empty_cell
\* (square1); on break, square1 is set and the first draw for square2 made
EmptyCellLoop1 ==
    /\ pc = "empty1"
    /\ IF CellAt(grid, cell).kind = "Goal"
       THEN UNCHANGED <<cell, square1, pc>>
       ELSE IF \E i \in 1 .. Len(starting_points) : starting_points[i] = cell
       THEN /\ cell' \in GetRandomCell
            /\ UNCHANGED <<square1, pc>>
       ELSE /\ square1' = cell
            /\ cell' \in GetRandomCell
            /\ pc' = "empty2"
    /\ UNCHANGED <<playVars, argVars, grid, goal, starting_points, start, pending, square2,
                   pairs_done, position, last_step>>

\* A slip in the item loop: when square2 coincides with square1 it is drawn
\* again instead of giving the iteration up
EmptyCellLoop2Retrying ==
    /\ pc = "empty2"
    /\ IF CellAt(grid, cell).kind = "Goal"
       THEN UNCHANGED <<cell, square2, pending, pairs_done, pc>>
       ELSE IF \/ \E i \in 1 .. Len(starting_points) : starting_points[i] = cell
               \/ square1 = cell
       THEN /\ cell' \in GetRandomCell
            /\ UNCHANGED <<square2, pending, pairs_done, pc>>
       ELSE /\ square2' = cell
            /\ UNCHANGED cell
            /\ pending' = ConnectOps(square1, cell)
            /\ pc' = "connect_items"
            /\ UNCHANGED pairs_done
    /\ UNCHANGED <<playVars, argVars, grid, goal, starting_points, start, square1,
                   position, last_step>>

\* map.rs 207-218, 160-166: one iteration of the loop of get_random_empty_cell
\* (square2); on break either `continue` or enter connect_cells
EmptyCellLoop2 ==
    /\ pc = "empty2"
    /\ IF CellAt(grid, cell).kind = "Goal"
       THEN UNCHANGED <<cell, square2, pending, pairs_done, pc>>
       ELSE IF \E i \in 1 .. Len(starting_points) : starting_points[i] = cell
       THEN /\ cell' \in GetRandomCell
            /\ UNCHANGED <<square2, pending, pairs_done, pc>>
       ELSE /\ square2' = cell
            /\ UNCHANGED cell
            /\ IF square1 = cell
               THEN /\ pairs_done' = pairs_done + 1
                    /\ pc' = "items"
                    /\ UNCHANGED pending
               ELSE /\ pending' = ConnectOps(square1, cell)
                    /\ pc' = "connect_items"
                    /\ UNCHANGED pairs_done
    /\ UNCHANGED <<playVars, argVars, grid, goal, starting_points, start, square1,
                   position, last_step>>

\* map.rs 167-168: connect_cells has returned, place both items
PlaceItems ==
    /\ pc = "connect_items"
    /\ pending = <<>>
    /\ LET p1 == PlaceItem(grid, square1, Item1(pairs_done))
           p2 == PlaceItem(p1.grid, square2, Item2(pairs_done))
       IN  IF p1.panic \/ p2.panic
           THEN /\ pc' = "panic_place"
                /\ UNCHANGED <<grid, pairs_done>>
           ELSE /\ grid' = p2.grid
                /\ pairs_done' = pairs_done + 1
                /\ pc' = "items"
    /\ UNCHANGED <<playVars, argVars, goal, starting_points, start, pending, cell, square1,
                   square2, position, last_step>>

\* map.rs 171: return the map
ReturnMap ==
    /\ pc = "items"
    /\ pairs_done >= ItemPairs
    /\ pc' = "done"
    /\ UNCHANGED <<playVars, argVars, genVars, position, last_step>>

Generate ==
    \/ PlaceGoal
    \/ PickStart
    \/ Supplement
    \/ PushStart
    \/ BeginItems
    \/ DrawSquare1
    \/ EmptyCellLoop1
    \/ EmptyCellLoop2
    \/ PlaceItems
    \/ ReturnMap

Next == Generate

Spec == Init /\ [][Next]_vars

--------------------------------------------------------------------------
(* tests::generate_map: generate_random_map(10, 10, 3, 0., 5) *)

TestWidth == 10

TestHeight == 10

TestPlayers == 3

TestDensity == 0

TestDistance == 5

InitTest ==
    InitArgs(TestWidth, TestHeight, {TestPlayers}, {TestDensity}, {TestDistance})

NextTest ==
    \/ PlaceGoal
    \/ PickStart
    \/ Supplement
    \/ PushStart
    \/ BeginItems
    \/ ReturnMap

SpecTest == InitTest /\ [][NextTest]_vars

--------------------------------------------------------------------------
(* Player::step on a generated map *)

\* Player::step: whether it panicked, the returned flag, the position afterwards
PlayerStep(g, pos, direction) ==
    LET here == CellAt(g, pos)
        current == CoordinatesStep(pos, direction, width, height)
    IN  IF here.kind = "Wall"
        THEN [panic |-> TRUE, ret |-> FALSE, at |-> pos]
        ELSE IF here.kind = "Path" /\ BitAnd(direction, here.exits) = 0
        THEN [panic |-> FALSE, ret |-> FALSE, at |-> pos]
        ELSE IF ~current.ok
        THEN [panic |-> FALSE, ret |-> FALSE, at |-> pos]
        ELSE IF CellAt(g, current.at).kind = "Wall"
        THEN [panic |-> TRUE, ret |-> FALSE, at |-> pos]
        ELSE [panic |-> FALSE, ret |-> TRUE, at |-> current.at]

\* setup_game, game.rs 275-286: one player spawned at each starting position
SpawnPlayers ==
    /\ pc = "done"
    /\ position' = starting_points
    /\ pc' = "game"
    /\ UNCHANGED <<playVars, argVars, genVars, last_step>>

\* A call of Player::step for one player, in any cardinal direction
StepPlayer ==
    /\ pc = "game"
    /\ \E i \in 1 .. Len(position), direction \in Cardinals :
          LET r == PlayerStep(grid, position[i], direction)
          IN  /\ last_step' = [kind |-> "player", player |-> i, dir |-> direction,
                               from |-> position[i], ret |-> r.ret, at |-> r.at]
              /\ position' = [position EXCEPT ![i] = r.at]
              /\ pc' = IF r.panic THEN "panic_step" ELSE "game"
    /\ UNCHANGED <<playVars, argVars, genVars>>

InitWalk ==
    InitArgs(MapWidth, MapHeight, {MinPlayers}, {0},
             1 .. MaxDist(MapWidth, MapHeight))

NextWalk ==
    \/ PlaceGoal
    \/ PickStart
    \/ Supplement
    \/ PushStart
    \/ BeginItems
    \/ ReturnMap
    \/ SpawnPlayers
    \/ StepPlayer

SpecWalk == InitWalk /\ [][NextWalk]_vars

--------------------------------------------------------------------------
(* Coordinates::step on its own, for every grid size up to the bounds *)

InitCoord ==
    /\ NoPlay
    /\ width \in 1 .. MapWidth
    /\ height \in 1 .. MapHeight
    /\ players = 1
    /\ item_density = 0
    /\ travel_distance = 1
    /\ grid = [y \in 0 .. height - 1 |-> [x \in 0 .. width - 1 |-> Wall]]
    /\ goal = <<0, 0>>
    /\ starting_points = <<>>
    /\ pc = "coord"
    /\ start = NoCell
    /\ pending = <<>>
    /\ cell = NoCell
    /\ square1 = NoCell
    /\ square2 = NoCell
    /\ pairs_done = 0
    /\ \E c \in CellsOf(width, height) : position = <<c>>
    /\ last_step = NoStep

\* A call of Coordinates::step in any cardinal direction
StepCoordinates ==
    /\ pc = "coord"
    /\ \E direction \in Cardinals :
          LET r == CoordinatesStep(position[1], direction, width, height)
          IN  /\ last_step' = [kind |-> "coord", player |-> 1, dir |-> direction,
                               from |-> position[1], ret |-> r.ok, at |-> r.at]
              /\ position' = <<r.at>>
    /\ UNCHANGED <<playVars, argVars, genVars, pc>>

NextCoord == StepCoordinates

SpecCoord == InitCoord /\ [][NextCoord]_vars

--------------------------------------------------------------------------
(* Numbers of lib/dice.rs                                                  *)
(*                                                                         *)
(* An f64 is the real number it stands for, without rounding error:        *)
(* <<a, b, c, d, n>> is (a + b*sqrt(2) + c*sqrt(3) + d*sqrt(6)) / n with   *)
(* n > 0 and the five integers coprime.  The field holds sqrt(1/6) of the  *)
(* fair die and the square roots superimpose_pair takes of the strengths   *)
(* in Strengths.  A c64 is the pair <<re, im>> of two such numbers.        *)

RECURSIVE Gcd(_, _)
Gcd(m, n) == IF n = 0 THEN m ELSE Gcd(n, m % n)

Magnitude(n) == IF n < 0 THEN -n ELSE n

\* the number (a + b*sqrt(2) + c*sqrt(3) + d*sqrt(6)) / n in lowest terms
Real(a, b, c, d, n) ==
    LET g == Gcd(Gcd(Gcd(Magnitude(a), Magnitude(b)),
                     Gcd(Magnitude(c), Magnitude(d))), n)
    IN  <<a \div g, b \div g, c \div g, d \div g, n \div g>>

\* the rational num / den
Ratio(num, den) == Real(num, 0, 0, 0, den)

RealZero == Ratio(0, 1)

RealOne == Ratio(1, 1)

RealNeg(x) == <<-x[1], -x[2], -x[3], -x[4], x[5]>>

RealAdd(x, y) ==
    IF x = RealZero THEN y
    ELSE IF y = RealZero THEN x
    ELSE LET l == (x[5] \div Gcd(x[5], y[5])) * y[5]
             p == l \div x[5]
             q == l \div y[5]
         IN  Real(x[1] * p + y[1] * q, x[2] * p + y[2] * q,
                  x[3] * p + y[3] * q, x[4] * p + y[4] * q, l)

RealSub(x, y) == RealAdd(x, RealNeg(y))

RealMul(x, y) ==
    IF x = RealZero \/ y = RealZero THEN RealZero
    ELSE IF x = RealOne THEN y
    ELSE IF y = RealOne THEN x
    ELSE Real(x[1] * y[1] + 2 * x[2] * y[2] + 3 * x[3] * y[3] + 6 * x[4] * y[4],
              x[1] * y[2] + x[2] * y[1] + 3 * (x[3] * y[4] + x[4] * y[3]),
              x[1] * y[3] + x[3] * y[1] + 2 * (x[2] * y[4] + x[4] * y[2]),
              x[1] * y[4] + x[4] * y[1] + x[2] * y[3] + x[3] * y[2],
              x[5] * y[5])

\* sign of p + q*sqrt(2)
Sign2(p, q) ==
    IF p >= 0 /\ q >= 0 THEN (IF p = 0 /\ q = 0 THEN 0 ELSE 1)
    ELSE IF p <= 0 /\ q <= 0 THEN -1
    ELSE IF p > 0 THEN (IF p * p > 2 * q * q THEN 1 ELSE -1)
    ELSE (IF 2 * q * q > p * p THEN 1 ELSE -1)

\* sign of x = A + B*sqrt(3) with A = a + b*sqrt(2) and B = c + d*sqrt(2):
\* when A and B differ in sign it is decided by the sign of A*A - 3*B*B
RealSign(x) ==
    LET sA == Sign2(x[1], x[2])
        sB == Sign2(x[3], x[4])
        sD == Sign2(x[1] * x[1] + 2 * x[2] * x[2]
                      - 3 * x[3] * x[3] - 6 * x[4] * x[4],
                    2 * x[1] * x[2] - 6 * x[3] * x[4])
    IN  IF sB = 0 THEN sA
        ELSE IF sA = 0 \/ sA = sB THEN sB
        ELSE IF sA > 0 THEN sD ELSE -sD

\* x < y on f64
RealLess(x, y) == RealSign(RealSub(x, y)) < 0

IsSquare(n) == \E r \in 0 .. n : r * r = n

ISqrt(n) == CHOOSE r \in 0 .. n : r * r = n

\* f64::sqrt of a rational q >= 0 that is k times the square of a rational
\* for k in {1, 2, 3, 6}: the root is that rational times sqrt(k)
RealSqrt(q) ==
    LET Fits(k) == LET g == Gcd(q[1], q[5] * k)
                   IN  IsSquare(q[1] \div g) /\ IsSquare((q[5] * k) \div g)
        k == CHOOSE k \in {1, 2, 3, 6} : Fits(k)
        g == Gcd(q[1], q[5] * k)
        r == ISqrt(q[1] \div g)
        s == ISqrt((q[5] * k) \div g)
    IN  Real(IF k = 1 THEN r ELSE 0, IF k = 2 THEN r ELSE 0,
             IF k = 3 THEN r ELSE 0, IF k = 6 THEN r ELSE 0, s)

\* c64::from(f64), c64::zero(), c64::one()
C64(re) == <<re, RealZero>>

Zero == C64(RealZero)

One == C64(RealOne)

CAdd(z, w) == <<RealAdd(z[1], w[1]), RealAdd(z[2], w[2])>>

CSub(z, w) == <<RealSub(z[1], w[1]), RealSub(z[2], w[2])>>

CNeg(z) == <<RealNeg(z[1]), RealNeg(z[2])>>

CMul(z, w) ==
    IF z = Zero \/ w = Zero THEN Zero
    ELSE IF z = One THEN w
    ELSE IF w = One THEN z
    ELSE <<RealSub(RealMul(z[1], w[1]), RealMul(z[2], w[2])),
           RealAdd(RealMul(z[1], w[2]), RealMul(z[2], w[1]))>>

Conj(z) == <<z[1], RealNeg(z[2])>>

NormSqr(z) == RealAdd(RealMul(z[1], z[1]), RealMul(z[2], z[2]))

--------------------------------------------------------------------------
(* WeightedDie and WeightTransform: lib/dice.rs                            *)
(*                                                                         *)
(* Weights is the tuple of the six c64 weights; face f of the die is index *)
(* f (index f - 1 in the source).  A Matrix is a tuple of six rows.        *)

\* dice.rs 41: type Weights = [c64; 6]
Sides == 6

Faces == 1 .. Sides

\* the sum f[1] + ... + f[n], accumulated in index order from c64::zero()
RECURSIVE CSum(_, _)
CSum(f, n) == IF n = 0 THEN Zero ELSE CAdd(CSum(f, n - 1), f[n])

\* dice.rs 60-64
FairDie == [f \in Faces |-> C64(RealSqrt(Ratio(1, Sides)))]

\* the total that the debug assertion of WeightedDie::with_weights compares with 1
TotalNormSqr(weights) ==
    LET norms == [f \in Faces |-> C64(NormSqr(weights[f]))]
    IN  CSum(norms, Sides)[1]

\* dice.rs 81-90, from face `value` on with `roll` left of the sample:
\* the face returned, or panic when the loop falls through
RECURSIVE RollFrom(_, _, _)
RollFrom(weights, value, roll) ==
    IF value > Sides
    THEN [panic |-> TRUE, value |-> 0]
    ELSE IF RealLess(roll, NormSqr(weights[value]))
    THEN [panic |-> FALSE, value |-> value]
    ELSE RollFrom(weights, value + 1, RealSub(roll, NormSqr(weights[value])))

\* WeightedDie::roll with the sample gen_range(0.0..1.0) drew
Roll(weights, sample) == RollFrom(weights, 1, sample)

\* a matrix with its ones one column off the diagonal
IdentityShifted ==
    [i \in Faces |-> [j \in Faces |-> IF j = (i % Sides) + 1 THEN One ELSE Zero]]

\* dice.rs 120-127
Identity == [i \in Faces |-> [j \in Faces |-> IF i = j THEN One ELSE Zero]]

\* a * b with the operands taken in the other order
MatrixProductReversed(a, b) ==
    [i \in Faces |-> [j \in Faces |->
        CSum([k \in Faces |-> CMul(b[i][k], a[k][j])], Sides)]]

\* dice.rs 130-140
MatrixProduct(a, b) ==
    [i \in Faces |-> [j \in Faces |->
        CSum([k \in Faces |-> CMul(a[i][k], b[k][j])], Sides)]]

\* dice.rs 163, 166: `.norm() > 1e-12`; the tolerance only absorbs rounding
\* error, so on exact numbers the test is whether the term is not zero
AboveTolerance(term) == NormSqr(term) # RealZero

\* dice.rs 151-172
IsUnitary(matrix) ==
    LET cc == [i \in Faces |-> [j \in Faces |-> Conj(matrix[j][i])]]
        product == MatrixProduct(matrix, cc)
    IN  \A i, j \in Faces :
            IF i = j
            THEN ~AboveTolerance(CSub(product[i][j], One))
            ELSE ~AboveTolerance(product[i][j])

\* dice.rs 142-147, without its debug assertion
CombinedWith(self, other) == MatrixProduct(self, other)

\* superimpose_pair with +b in both corners: not a rotation
SuperimposePairSymmetric(v1, v2, transfer) ==
    LET a == C64(RealSqrt(RealMul(transfer, Ratio(1, 2))))
        b == C64(RealSqrt(RealMul(RealSub(Ratio(2, 1), transfer), Ratio(1, 2))))
    IN  [Identity EXCEPT ![v1][v1] = a, ![v2][v2] = a,
                         ![v1][v2] = b, ![v2][v1] = b]

\* superimpose_pair with the signs of the two corners exchanged
SuperimposePairSwapped(v1, v2, transfer) ==
    LET a == C64(RealSqrt(RealMul(transfer, Ratio(1, 2))))
        b == C64(RealSqrt(RealMul(RealSub(Ratio(2, 1), transfer), Ratio(1, 2))))
    IN  [Identity EXCEPT ![v1][v1] = a, ![v2][v2] = a,
                         ![v1][v2] = CNeg(b), ![v2][v1] = b]

\* dice.rs 180-198, without its debug assertions
SuperimposePair(v1, v2, transfer) ==
    LET a == C64(RealSqrt(RealMul(transfer, Ratio(1, 2))))
        b == C64(RealSqrt(RealMul(RealSub(Ratio(2, 1), transfer), Ratio(1, 2))))
    IN  [Identity EXCEPT ![v1][v1] = a, ![v2][v2] = a,
                         ![v1][v2] = b, ![v2][v1] = CNeg(b)]

\* apply with the last column of the matrix left out of every sum
ApplySkippingLast(matrix, rhs) ==
    [i \in Faces |->
        CSum([j \in Faces |-> CMul(matrix[i][j], rhs[j])], Sides - 1)]

\* dice.rs 201-209
Apply(matrix, rhs) ==
    [i \in Faces |-> CSum([j \in Faces |-> CMul(matrix[i][j], rhs[j])], Sides)]

\* dice.rs 92-94: the weights of the die afterwards
ApplyTransformation(weights, transform) == Apply(transform, weights)

--------------------------------------------------------------------------
(* Items: lib/items.rs                                                     *)
(*                                                                         *)
(* A WeightTransfer is [item_type, transform, full]; `full` keeps the      *)
(* arguments that the full description is formatted from, in its order.    *)

\* items.rs 117-129
NewSingle(from, to, strength) ==
    [item_type |-> "WeightTransfer",
     transform |-> SuperimposePair(to, from, strength),
     full |-> <<strength, from, to>>]

\* items.rs 138-154
NewDouble(from1, strength1, from2, strength2, to) ==
    [item_type |-> "DoubleWeightTransfer",
     transform |-> CombinedWith(SuperimposePair(to, from1, strength1),
                                SuperimposePair(to, from2, strength2)),
     full |-> <<to, from2, from1, strength2, strength1>>]

\* items.rs 165-192
NewPair(from1, strength1, to1, from2, strength2, to2) ==
    [item_type |-> "WeightTransferPair",
     transform |-> CombinedWith(SuperimposePair(to1, from1, strength1),
                                SuperimposePair(to2, from2, strength2)),
     full |-> <<strength2, to2, from2, strength1, to1, from1>>]

\* items.rs 100-114: the (dest, faces, strengths) it can return when the
\* faces are drawn from `faces` and the strengths from `strengths`
RandomTransferParameters(count, faces, strengths) ==
    {p \in [dest : faces, faces : [1 .. count -> faces],
            strengths : [1 .. count -> strengths]] :
        /\ \A i \in 1 .. count : p.faces[i] # p.dest
        /\ \A i, j \in 1 .. count : i # j => p.faces[i] # p.faces[j]}

\* items.rs 131-136
RandomSingle(faces, strengths) ==
    {NewSingle(p.faces[1], p.dest, p.strengths[1]) :
        p \in RandomTransferParameters(1, faces, strengths)}

\* items.rs 156-163: pop() hands out the last draw first
RandomDouble(faces, strengths) ==
    {NewDouble(p.faces[2], p.strengths[2], p.faces[1], p.strengths[1], p.dest) :
        p \in RandomTransferParameters(2, faces, strengths)}

\* items.rs 194-202: two independent draws
RandomPair(faces, strengths) ==
    {NewPair(p.faces[1], p.strengths[1], p.dest,
             q.faces[1], q.strengths[1], q.dest) :
        p, q \in RandomTransferParameters(1, faces, strengths)}

\* items.rs 83-91
RandomItem(faces, strengths) ==
    RandomSingle(faces, strengths) \cup RandomDouble(faces, strengths)
        \cup RandomPair(faces, strengths)

\* Item::use_item, items.rs 214-216, through Player::transform_die:
\* the weights of the player's die afterwards
UseItem(item, weights) == ApplyTransformation(weights, item.transform)

\* use_item_on_die leaving the die it is given as it was
UseItemOnDieUnchanged(item, weights) == weights

\* Item::use_item_on_die, items.rs 218-220: the weights of `die` afterwards
UseItemOnDie(item, weights) == ApplyTransformation(weights, item.transform)

--------------------------------------------------------------------------
(* The game: src/game.rs, with every player a PlayerType::LocalHuman and   *)
(* the game never paused.  update_game and item_panel run once per frame;  *)
(* an action below is one frame of one of them with the input it reads.    *)
(* Player number n of the source is index n + 1 of position, inventory,    *)
(* dice and moves.                                                         *)

\* get_opposite_direction handing its argument back
OppositeDirectionSame(direction) == direction

\* get_opposite_direction, called at game.rs 534
OppositeDirection(direction) ==
    CASE direction = NORTH -> SOUTH
      [] direction = SOUTH -> NORTH
      [] direction = EAST -> WEST
      [] direction = WEST -> EAST

\* directions_are_opposite answering false for every pair
DirectionsNeverOpposite(a, b) == FALSE

\* map.rs 61-69
DirectionsAreOpposite(a, b) ==
    CASE a = NORTH -> b = SOUTH
      [] a = SOUTH -> b = NORTH
      [] a = EAST -> b = WEST
      [] a = WEST -> b = EAST

\* Player::last_move on a history that is taken for empty
LastMoveOfNothing(history) == 0

\* Player::last_move
LastMove(history) == IF history = <<>> THEN 0 ELSE history[Len(history)]

\* game.rs 545 with the item left in the cell
TakeItemKeepingIt(c) == c

\* game.rs 545 with the cell closed behind the item
TakeItemClosingCell(c) == [c EXCEPT !.item = 0, !.exits = 0]

\* game.rs 545: item.take() on the cell the player stands on
TakeItem(c) == [c EXCEPT !.item = 0]

\* end_turn without its loop: the next player in order, winner or not
NextPlayerInOrder(gs) == (gs.active_player + 1) % players

\* The player end_turn's loop stops at (game.rs 363-368); -1 when every
\* player is in winners and the loop never stops
NextPlayer(gs) ==
    LET order == [k \in 1 .. players |-> (gs.active_player + k) % players]
        free == {k \in 1 .. players :
                    \A j \in 1 .. Len(gs.winners) : gs.winners[j] # order[k]}
    IN  IF free = {} THEN -1
        ELSE order[CHOOSE k \in free : \A l \in free : k <= l]

\* game.rs 360-373
EndTurn(gs) ==
    [gs EXCEPT !.rolled_value = 0, !.inventory_visible = FALSE,
               !.active_player = NextPlayer(gs),
               !.current_action = WaitForInput,
               !.item_preview = DefaultItemUsePreview]

\* The samples gen_range(0.0..1.0) is drawn from: the points k / 6 where a
\* fair die passes from one face to the next
Samples == {Ratio(k, Sides) : k \in 0 .. Sides - 1}

\* game.rs 451-454: R is released while waiting for input
PressRoll ==
    /\ pc = "game"
    /\ game_state.current_action = WaitForInput
    /\ \E sample \in Samples :
          LET r == Roll(dice[game_state.active_player + 1], sample)
          IN  IF r.panic
              THEN /\ pc' = "panic_roll"
                   /\ UNCHANGED game_state
              ELSE /\ game_state' = [game_state EXCEPT
                                        !.rolled_value = r.value,
                                        !.current_action = Moving(0, r.value)]
                   /\ UNCHANGED pc
    /\ UNCHANGED <<argVars, genVars, position, last_step, items, inventory,
                   dice, moves, rolled, used>>

\* game.rs 456-458, 582-584: E is released
PressInventory ==
    /\ pc = "game"
    /\ game_state.current_action \in {WaitForInput, HasMoved}
    /\ game_state' = [game_state EXCEPT !.inventory_visible = ~@]
    /\ UNCHANGED <<argVars, genVars, pc, position, last_step, items, inventory,
                   dice, moves, rolled, used>>

\* game.rs 507-577: the active player attempts the pending move `step`
TakeStep(step) ==
    LET i == game_state.active_player + 1
        r == PlayerStep(grid, position[i], step)
        here == CellAt(grid, r.at)
        backwards == OppositeDirection(step)
        available == IF HasBit(here.exits, backwards)
                     THEN here.exits - backwards ELSE here.exits
        onward == IF available \in Cardinals THEN available ELSE 0
        step_count == game_state.current_action.remaining - 1
    IN  /\ last_step' = [kind |-> "player", player |-> i, dir |-> step,
                         from |-> position[i], ret |-> r.ret, at |-> r.at]
        /\ IF r.panic
           THEN /\ pc' = "panic_step"
                /\ UNCHANGED <<grid, position, inventory, moves, game_state>>
           ELSE IF ~r.ret
           THEN /\ game_state' = [game_state EXCEPT !.current_move = step]
                /\ UNCHANGED <<pc, grid, position, inventory, moves>>
           ELSE /\ position' = [position EXCEPT ![i] = r.at]
                /\ moves' = IF step # LastMove(moves[i])
                            THEN [moves EXCEPT ![i] = Append(@, step)]
                            ELSE moves
                /\ UNCHANGED pc
                /\ IF here.kind = "Goal"
                   THEN /\ game_state' = [game_state EXCEPT
                                             !.winners = Append(@, i - 1),
                                             !.current_action = HasMoved,
                                             !.current_move = 0]
                        /\ UNCHANGED <<grid, inventory>>
                   ELSE /\ grid' = IF here.item # 0
                                   THEN SetCell(grid, r.at, TakeItem(here))
                                   ELSE grid
                        /\ inventory' = IF here.item # 0
                                        THEN [inventory EXCEPT
                                                 ![i] = Append(@, here.item)]
                                        ELSE inventory
                        /\ game_state' =
                              IF step_count = 0
                              THEN [game_state EXCEPT
                                       !.current_action = HasMoved,
                                       !.current_move = 0]
                              ELSE [game_state EXCEPT
                                       !.current_action = Moving(step, step_count),
                                       !.current_move = onward]

\* game.rs 473-487, 507: a direction key is released while no move is
\* pending; the step is attempted in the same frame
PressMove ==
    /\ pc = "game"
    /\ game_state.current_action.kind = "Moving"
    /\ game_state.current_move = 0
    /\ \E step \in Cardinals :
          LET i == game_state.active_player + 1
              here == CellAt(grid, position[i])
          IN  IF ~DirectionsAreOpposite(step, LastMove(moves[i]))
              THEN TakeStep(step)
              ELSE IF here.kind # "Path"
              THEN /\ pc' = "panic_not_on_path"
                   /\ UNCHANGED <<grid, position, inventory, moves, game_state,
                                  last_step>>
              ELSE IF here.exits \in Cardinals
              THEN TakeStep(step)
              ELSE UNCHANGED <<pc, grid, position, inventory, moves,
                               game_state, last_step>>
    /\ UNCHANGED <<argVars, goal, starting_points, start, pending, cell,
                   square1, square2, pairs_done, items, dice, rolled, used>>

\* game.rs 488-494, 507: a move is pending and tile_walk_time has passed
ContinueMove ==
    /\ pc = "game"
    /\ game_state.current_action.kind = "Moving"
    /\ game_state.current_move # 0
    /\ TakeStep(game_state.current_move)
    /\ UNCHANGED <<argVars, goal, starting_points, start, pending, cell,
                   square1, square2, pairs_done, items, dice, rolled, used>>

\* game.rs 585-592: Enter is released after the move
PressEndTurn ==
    /\ pc = "game"
    /\ game_state.current_action = HasMoved
    /\ moves' = [moves EXCEPT ![game_state.active_player + 1] = <<>>]
    /\ IF Len(game_state.winners) = players - 1
       THEN /\ game_state' = [game_state EXCEPT !.game_over = TRUE]
            /\ UNCHANGED pc
       ELSE /\ game_state' = EndTurn(game_state)
            /\ pc' = IF NextPlayer(game_state) = -1
                     THEN "end_turn_loop" ELSE pc
    /\ UNCHANGED <<argVars, genVars, position, last_step, items, inventory,
                   dice, rolled, used>>

\* Vec::remove(index) on a 1-based sequence
Remove(seq, index) ==
    SubSeq(seq, 1, index - 1) \o SubSeq(seq, index + 1, Len(seq))

\* game.rs 799-815: the preview with its effect computed, if it had none,
\* on a clone of the target's die
WithEffect(pv) ==
    IF pv.effect # <<>> THEN pv
    ELSE LET die_before == dice[pv.target_player + 1]
             item == items[inventory[pv.source_player + 1][pv.item_index + 1]]
         IN  [pv EXCEPT !.effect = <<die_before, UseItemOnDie(item, die_before)>>]

\* item_panel, game.rs 939, ending in WaitForInput instead
CancelItemToWaitForInput(gs) == [gs EXCEPT !.current_action = WaitForInput]

\* item_panel, game.rs 939: ItemAction::CancelItem
CancelItem(gs) == [gs EXCEPT !.current_action = HasMoved]

\* item_panel -> item_preview, a frame in which no button is clicked
ShowPreview ==
    /\ pc = "game"
    /\ ~game_state.game_over
    /\ game_state.current_action = UsingItem
    /\ game_state.item_preview.effect = <<>>
    /\ game_state' = [game_state EXCEPT !.item_preview = WithEffect(@)]
    /\ UNCHANGED <<argVars, genVars, pc, position, last_step, items, inventory,
                   dice, moves, rolled, used>>

\* item_panel -> item_preview, game.rs 824-832, 938: Confirm is clicked
ConfirmItem ==
    /\ pc = "game"
    /\ ~game_state.game_over
    /\ game_state.current_action = UsingItem
    /\ LET pv == WithEffect(game_state.item_preview)
           source == pv.source_player + 1
           target == pv.target_player + 1
           index == pv.item_index + 1
           item == items[inventory[source][index]]
       IN  /\ inventory' = [inventory EXCEPT ![source] = Remove(@, index)]
           /\ dice' = [dice EXCEPT ![target] = UseItem(item, @)]
           /\ game_state' = EndTurn([game_state EXCEPT !.item_preview = pv])
    /\ pc' = IF NextPlayer(game_state) = -1 THEN "end_turn_loop" ELSE pc
    /\ used' = used + 1
    /\ UNCHANGED <<argVars, genVars, position, last_step, items, moves, rolled>>

\* item_panel -> item_preview, game.rs 833-835, 939: Cancel is clicked
ClickCancel ==
    /\ pc = "game"
    /\ ~game_state.game_over
    /\ game_state.current_action = UsingItem
    /\ game_state' = CancelItem([game_state EXCEPT
                                    !.item_preview = WithEffect(@)])
    /\ UNCHANGED <<argVars, genVars, pc, position, last_step, items, inventory,
                   dice, moves, rolled, used>>

\* item_panel -> inventory_window, game.rs 893-902: a target is picked
SelectTarget ==
    /\ pc = "game"
    /\ ~game_state.game_over
    /\ game_state.current_action # UsingItem
    /\ game_state.inventory_visible
    /\ inventory[game_state.active_player + 1] # <<>>
    /\ \E num \in 0 .. players - 1 :
          game_state' = [game_state EXCEPT !.item_preview.target_player = num]
    /\ UNCHANGED <<argVars, genVars, pc, position, last_step, items, inventory,
                   dice, moves, rolled, used>>

\* item_panel -> inventory_window, game.rs 905-920: "Use item..." is clicked
ClickUseItem ==
    /\ pc = "game"
    /\ ~game_state.game_over
    /\ game_state.current_action # UsingItem
    /\ game_state.inventory_visible
    /\ \E item_index \in 1 .. Len(inventory[game_state.active_player + 1]) :
          LET held == inventory[game_state.active_player + 1][item_index]
          IN  game_state' = [game_state EXCEPT
                  !.item_preview =
                      [source_player |-> game_state.active_player,
                       item_type |-> items[held].item_type,
                       item_index |-> item_index - 1,
                       target_player |-> game_state.item_preview.target_player,
                       effect |-> <<>>],
                  !.current_action = UsingItem]
    /\ UNCHANGED <<argVars, genVars, pc, position, last_step, items, inventory,
                   dice, moves, rolled, used>>

\* The grid generate_random_map returns when it draws `goalc` for the goal,
\* `starts` for the two players and `squares` for the one pair of items
GeneratedMap(goalc, starts, squares) ==
    LET walls == [y \in 0 .. MapHeight - 1 |-> [x \in 0 .. MapWidth - 1 |-> Wall]]
        g0 == SetCell(walls, goalc, Goal(0))
        g1 == ConnectCells(g0, starts[1], goalc)
        g2 == ConnectCells(g1, starts[2], goalc)
        g3 == ConnectCells(g2, squares[1], squares[2])
        g4 == PlaceItem(g3, squares[1], Item1(0)).grid
    IN  PlaceItem(g4, squares[2], Item2(0)).grid

\* The draws of generate_random_map the game is played on
GameDraws ==
    {[goal |-> <<0, 0>>, starts |-> <<<<1, 0>>, <<0, 1>>>>,
      squares |-> <<<<2, 0>>, <<1, 1>>>>]}

\* Items random_item can return, one of each type
GameItems ==
    {NewSingle(2, 1, RealOne),
     NewDouble(2, Ratio(18, 25), 3, RealOne, 1),
     NewPair(1, RealOne, 2, 3, Ratio(1, 2), 4)}

\* setup_game, game.rs 152-158, 275-286, 324-332: the state when the first
\* frame of the game begins
InitGame ==
    /\ width = MapWidth
    /\ height = MapHeight
    /\ players = MinPlayers
    /\ item_density = 20
    /\ travel_distance = 1
    /\ \E d \in GameDraws :
          /\ goal = d.goal
          /\ starting_points = d.starts
          /\ grid = GeneratedMap(d.goal, d.starts, d.squares)
          /\ start = d.starts[2]
          /\ cell = d.squares[2]
          /\ square1 = d.squares[1]
          /\ square2 = d.squares[2]
    /\ pending = <<>>
    /\ pairs_done = 1
    /\ pc = "game"
    /\ position = starting_points
    /\ last_step = NoStep
    /\ items \in [{Item1(0), Item2(0)} -> GameItems]
    /\ inventory = [i \in 1 .. players |-> <<>>]
    /\ dice = [i \in 1 .. players |-> FairDie]
    /\ moves = [i \in 1 .. players |-> <<>>]
    /\ game_state = DefaultGameState
    /\ rolled = NoRoll
    /\ used = 0

NextGame ==
    \/ PressRoll
    \/ PressInventory
    \/ PressMove
    \/ ContinueMove
    \/ PressEndTurn
    \/ ShowPreview
    \/ ConfirmItem
    \/ ClickCancel
    \/ SelectTarget
    \/ ClickUseItem

SpecGame == InitGame /\ [][NextGame]_vars

\* A map of generate_random_map with travel_distance 2, on which a turn passes
\* to the next player and comes back before anyone reaches the goal, and
\* each player passes an item on the way to the goal
TurnsDraws ==
    {[goal |-> <<0, 0>>, starts |-> <<<<2, 0>>, <<0, 2>>>>,
      squares |-> <<<<1, 0>>, <<0, 1>>>>]}

\* setup_game, game.rs 152-158, 275-286, 324-332, on a map of TurnsDraws
InitTurns ==
    /\ width = MapWidth
    /\ height = MapHeight
    /\ players = MinPlayers
    /\ item_density = 20
    /\ travel_distance = 2
    /\ \E d \in TurnsDraws :
          /\ goal = d.goal
          /\ starting_points = d.starts
          /\ grid = GeneratedMap(d.goal, d.starts, d.squares)
          /\ start = d.starts[2]
          /\ cell = d.squares[2]
          /\ square1 = d.squares[1]
          /\ square2 = d.squares[2]
    /\ pending = <<>>
    /\ pairs_done = 1
    /\ pc = "game"
    /\ position = starting_points
    /\ last_step = NoStep
    /\ items = [i \in {Item1(0), Item2(0)} |-> NewSingle(2, 1, RealOne)]
    /\ inventory = [i \in 1 .. players |-> <<>>]
    /\ dice = [i \in 1 .. players |-> FairDie]
    /\ moves = [i \in 1 .. players |-> <<>>]
    /\ game_state = DefaultGameState
    /\ rolled = NoRoll
    /\ used = 0

SpecTurns == InitTurns /\ [][NextGame]_vars

--------------------------------------------------------------------------
(* A die on its own: items are made and used on it.  `dice` holds the one  *)
(* die, `items` the item used last.                                        *)

\* Bound: the number of items used on the die
MaxUses == 2

\* f64 strengths whose two square roots in superimpose_pair are exact
Strengths == {RealZero, Ratio(1, 2), Ratio(2, 3), Ratio(18, 25), RealOne}

\* Items of the three types used on the die
DieItems ==
    {NewSingle(2, 1, RealOne), NewSingle(1, 2, RealZero),
     NewSingle(6, 3, Ratio(1, 2)), NewSingle(4, 5, Ratio(2, 3)),
     NewSingle(3, 4, Ratio(18, 25)),
     NewDouble(2, RealOne, 3, RealOne, 1),
     NewDouble(5, Ratio(1, 2), 6, RealOne, 4),
     NewDouble(1, Ratio(2, 3), 2, Ratio(18, 25), 6),
     NewPair(1, RealOne, 2, 3, RealOne, 4),
     NewPair(5, RealZero, 6, 6, Ratio(1, 2), 1),
     NewPair(2, Ratio(18, 25), 3, 3, Ratio(2, 3), 2)}

InitDie ==
    /\ width = MapWidth
    /\ height = MapHeight
    /\ players = 1
    /\ item_density = 0
    /\ travel_distance = 1
    /\ grid = [y \in 0 .. height - 1 |-> [x \in 0 .. width - 1 |-> Wall]]
    /\ goal = NoCell
    /\ starting_points = <<>>
    /\ pc = "die"
    /\ start = NoCell
    /\ pending = <<>>
    /\ cell = NoCell
    /\ square1 = NoCell
    /\ square2 = NoCell
    /\ pairs_done = 0
    /\ position = <<>>
    /\ last_step = NoStep
    /\ items = <<>>
    /\ inventory = <<>>
    /\ dice = <<FairDie>>
    /\ moves = <<>>
    /\ game_state = DefaultGameState
    /\ rolled = NoRoll
    /\ used = 0

\* Item::use_item of one of DieItems on the die
UseOnDie ==
    /\ pc = "die"
    /\ used < MaxUses
    /\ \E item \in DieItems :
          /\ items' = <<item>>
          /\ dice' = <<UseItem(item, dice[1])>>
    /\ rolled' = [call |-> "use_item", sample |-> <<>>, value |-> 0]
    /\ used' = used + 1
    /\ UNCHANGED <<argVars, genVars, pc, position, last_step, inventory, moves,
                   game_state>>

NextDie == UseOnDie

SpecDie == InitDie /\ [][NextDie]_vars

--------------------------------------------------------------------------
(* WeightedDie::roll with the rounding of f64: every f64 operation of the  *)
(* code gives the float nearest to the exact result, ties to even.  The    *)
(* significand has MantissaBits bits where an f64 has 53; the exponent is  *)
(* not bounded.  The weights are real, as those of fair_die are.           *)

\* Bound: the bits of the significand
MantissaBits == 4

RECURSIVE Pow2(_)
Pow2(k) == IF k = 0 THEN 1 ELSE 2 * Pow2(k - 1)

\* the float nearest to num / den > 0
RECURSIVE RoundPositive(_, _)
RoundPositive(num, den) ==
    IF num >= den * Pow2(MantissaBits)
    THEN RealMul(Ratio(2, 1), RoundPositive(num, 2 * den))
    ELSE IF num < den * Pow2(MantissaBits - 1)
    THEN RealMul(Ratio(1, 2), RoundPositive(2 * num, den))
    ELSE LET m == num \div den
             twice == 2 * (num % den)
         IN  Ratio(IF twice > den \/ (twice = den /\ m % 2 = 1)
                   THEN m + 1 ELSE m, 1)

\* the f64 an operation returns when its exact result is the rational x
F64(x) ==
    IF x[1] = 0 THEN RealZero
    ELSE IF x[1] < 0 THEN RealNeg(RoundPositive(-x[1], x[5]))
    ELSE RoundPositive(x[1], x[5])

\* c64::norm_sqr: re * re + im * im in f64
NormSqrF64(z) ==
    F64(RealAdd(F64(RealMul(z[1], z[1])), F64(RealMul(z[2], z[2]))))

\* dice.rs 68-71: `total` after the loop of with_weights
RECURSIVE TotalF64(_, _)
TotalF64(weights, n) ==
    IF n = 0 THEN RealZero
    ELSE F64(RealAdd(TotalF64(weights, n - 1), NormSqrF64(weights[n])))

\* dice.rs 81-90 in f64, from face `value` on with `roll` left of the sample
RECURSIVE RollFromF64(_, _, _)
RollFromF64(weights, value, roll) ==
    IF value > Sides
    THEN [panic |-> TRUE, value |-> 0]
    ELSE IF RealLess(roll, NormSqrF64(weights[value]))
    THEN [panic |-> FALSE, value |-> value]
    ELSE RollFromF64(weights, value + 1,
                     F64(RealSub(roll, NormSqrF64(weights[value]))))

\* The samples of gen_range(0.0..1.0): MantissaBits - 1 random bits behind
\* the binary point
SamplesF64 ==
    {Ratio(k, Pow2(MantissaBits - 1)) : k \in 0 .. Pow2(MantissaBits - 1) - 1}

\* The weights a face of the dice below can have
Amplitudes == {RealZero, Ratio(9, 32), Ratio(13, 32), Ratio(15, 32)}

\* with_weights, dice.rs 66-75: the dice over Amplitudes whose `total`
\* is 1.0
DiceF64 ==
    {w \in [Faces -> {C64(a) : a \in Amplitudes}] : TotalF64(w, Sides) = RealOne}

InitRoll ==
    /\ width = MapWidth
    /\ height = MapHeight
    /\ players = 1
    /\ item_density = 0
    /\ travel_distance = 1
    /\ grid = [y \in 0 .. height - 1 |-> [x \in 0 .. width - 1 |-> Wall]]
    /\ goal = NoCell
    /\ starting_points = <<>>
    /\ pc = "roll"
    /\ start = NoCell
    /\ pending = <<>>
    /\ cell = NoCell
    /\ square1 = NoCell
    /\ square2 = NoCell
    /\ pairs_done = 0
    /\ position = <<>>
    /\ last_step = NoStep
    /\ items = <<>>
    /\ inventory = <<>>
    /\ dice \in {<<w>> : w \in DiceF64}
    /\ moves = <<>>
    /\ game_state = DefaultGameState
    /\ rolled = NoRoll
    /\ used = 0

\* WeightedDie::roll
RollF64 ==
    /\ pc = "roll"
    /\ \E sample \in SamplesF64 :
          \E r \in {RollFromF64(dice[1], 1, sample)} :
              /\ rolled' = [call |-> "roll", sample |-> sample, value |-> r.value]
              /\ pc' = IF r.panic THEN "panic_roll" ELSE pc
    /\ UNCHANGED <<argVars, genVars, position, last_step, items, inventory,
                   dice, moves, game_state, used>>

NextRoll == RollF64

SpecRoll == InitRoll /\ [][NextRoll]_vars

--------------------------------------------------------------------------
(* Transforms on their own: one item is made, and its transform or the     *)
(* identity is applied to a weight vector.  `items` holds the item and     *)
(* `dice` the weight vector.                                               *)

ImaginaryUnit == <<RealZero, RealOne>>

Whole(k) == C64(Ratio(k, 1))

\* Weight vectors: the fair die, a normalised one with imaginary and
\* negative parts, and one that is not normalised
WeightVectors ==
    {FairDie,
     <<C64(Ratio(1, 2)), CMul(ImaginaryUnit, C64(Ratio(1, 2))), C64(Ratio(1, 2)),
       C64(Ratio(-1, 2)), Zero, Zero>>,
     <<One, CMul(ImaginaryUnit, Whole(2)), Zero, Whole(-1),
       CAdd(One, ImaginaryUnit), Whole(3)>>}

\* The faces double and pair items are drawn over
TransformFaces == {1, 2, 3}

InitTransform ==
    /\ width = MapWidth
    /\ height = MapHeight
    /\ players = 1
    /\ item_density = 0
    /\ travel_distance = 1
    /\ grid = [y \in 0 .. height - 1 |-> [x \in 0 .. width - 1 |-> Wall]]
    /\ goal = NoCell
    /\ starting_points = <<>>
    /\ pc = "transform"
    /\ start = NoCell
    /\ pending = <<>>
    /\ cell = NoCell
    /\ square1 = NoCell
    /\ square2 = NoCell
    /\ pairs_done = 0
    /\ position = <<>>
    /\ last_step = NoStep
    /\ items = <<>>
    /\ inventory = <<>>
    /\ \E w \in WeightVectors : dice = <<w>>
    /\ moves = <<>>
    /\ game_state = DefaultGameState
    /\ rolled = NoRoll
    /\ used = 0

\* WeightTransfer::random_single over every face and strength
MakeSingle ==
    /\ pc = "transform"
    /\ items = <<>>
    /\ \E item \in RandomSingle(Faces, Strengths) : items' = <<item>>
    /\ UNCHANGED <<argVars, genVars, pc, position, last_step, inventory, dice,
                   moves, game_state, rolled, used>>

\* WeightTransfer::random_double
MakeDouble ==
    /\ pc = "transform"
    /\ items = <<>>
    /\ \E item \in RandomDouble(TransformFaces, Strengths) : items' = <<item>>
    /\ UNCHANGED <<argVars, genVars, pc, position, last_step, inventory, dice,
                   moves, game_state, rolled, used>>

\* WeightTransfer::random_pair
MakePair ==
    /\ pc = "transform"
    /\ items = <<>>
    /\ \E item \in RandomPair(TransformFaces, Strengths) : items' = <<item>>
    /\ UNCHANGED <<argVars, genVars, pc, position, last_step, inventory, dice,
                   moves, game_state, rolled, used>>

\* use_item_on_die with the item on the weight vector
ApplyItem ==
    /\ pc = "transform"
    /\ items # <<>>
    /\ used = 0
    /\ dice' = <<UseItemOnDie(items[1], dice[1])>>
    /\ rolled' = [call |-> "use_item_on_die", sample |-> <<>>, value |-> 0]
    /\ used' = 1
    /\ UNCHANGED <<argVars, genVars, pc, position, last_step, items, inventory,
                   moves, game_state>>

\* apply_transformation(&WeightTransform::identity()) on the weight vector
ApplyIdentity ==
    /\ pc = "transform"
    /\ used = 0
    /\ dice' = <<ApplyTransformation(dice[1], Identity)>>
    /\ rolled' = [call |-> "identity", sample |-> <<>>, value |-> 0]
    /\ used' = 1
    /\ UNCHANGED <<argVars, genVars, pc, position, last_step, items, inventory,
                   moves, game_state>>

NextTransform ==
    \/ MakeSingle
    \/ MakeDouble
    \/ MakePair
    \/ ApplyItem
    \/ ApplyIdentity

SpecTransform == InitTransform /\ [][NextTransform]_vars

--------------------------------------------------------------------------
(* Walking along exit bits *)

Delta(direction) ==
    CASE direction = NORTH -> <<0, 1>>
      [] direction = SOUTH -> <<0, -1>>
      [] direction = EAST -> <<1, 0>>
      [] direction = WEST -> <<-1, 0>>

Neighbour(c, direction) == <<c[1] + Delta(direction)[1], c[2] + Delta(direction)[2]>>

Abs(n) == IF n < 0 THEN -n ELSE n

Manhattan(a, b) == Abs(a[1] - b[1]) + Abs(a[2] - b[2])

\* The cells one move away from c: adjacent, inside the grid, in a direction
\* of c's exit mask
Moves(g, c) ==
    {n \in {Neighbour(c, d) : d \in {d \in Cardinals : HasBit(CellAt(g, c).exits, d)}} :
        /\ n[1] \in 0 .. width - 1
        /\ n[2] \in 0 .. height - 1}

RECURSIVE Flood(_, _, _)
Flood(g, frontier, seen) ==
    IF frontier = {} THEN seen
    ELSE LET next == (UNION {Moves(g, c) : c \in frontier}) \ seen
         IN  Flood(g, next, seen \cup next)

\* The cells reachable from c along exit bits
Reachable(g, c) == Flood(g, {c}, {c})

RECURSIVE Bfs(_, _, _, _, _)
Bfs(g, frontier, seen, target, k) ==
    IF target \in frontier THEN k
    ELSE IF frontier = {} THEN -1
    ELSE LET next == (UNION {Moves(g, c) : c \in frontier}) \ seen
         IN  Bfs(g, next, seen \cup next, target, k + 1)

\* Length of the shortest route along exit bits, -1 when there is none
RouteLength(g, from, to) == Bfs(g, {from}, {from}, to, 0)

Starts == {starting_points[i] : i \in 1 .. Len(starting_points)}

CellsOfKind(g, k) == {c \in Cells : CellAt(g, c).kind = k}

ItemCells(g) == {c \in Cells : CellAt(g, c).item # 0}

Panicked == pc \in {"panic_overflow", "panic_index", "panic_place", "panic_step"}

--------------------------------------------------------------------------
(* Automated players: lib/npc.rs.  shortest_path is called on a cell of a  *)
(* returned map.                                                           *)

\* Map::distance_to_goal(cell): the breadth-first distance along exit bits
\* between the cell and the Goal; -1 is None (no route)
DistanceToGoal(g, c) == RouteLength(g, c, goal)

\* npc.rs 102: usize::MAX, as the largest integer of the model
UsizeMax == 2147483647

\* npc.rs 109: the order in which the directions are tried
DirectionOrder == <<NORTH, EAST, SOUTH, WEST>>


\* npc.rs 109-119: the loop from the k-th direction on
RECURSIVE ShortestPathLoop(_, _, _, _, _, _)
ShortestPathLoop(g, startc, exits, k, min_distance, best_direction) ==
    IF k > Len(DirectionOrder)
    THEN [panic |-> FALSE, dir |-> best_direction]
    ELSE LET direction == DirectionOrder[k]
             next == CoordinatesStep(startc, direction, width, height).at
             distance == DistanceToGoal(g, next)
         IN  IF ~HasBit(exits, direction)
             THEN ShortestPathLoop(g, startc, exits, k + 1, min_distance,
                                   best_direction)
             ELSE IF distance = -1
             THEN [panic |-> TRUE, dir |-> 0]
             ELSE IF distance < min_distance
             THEN ShortestPathLoop(g, startc, exits, k + 1, distance, direction)
             ELSE ShortestPathLoop(g, startc, exits, k + 1, min_distance,
                                   best_direction)

\* shortest_path taking the first exit in the order of npc.rs 109, whatever
\* the distances
ShortestPathFirstExit(g, startc) ==
    LET open == {k \in 1 .. Len(DirectionOrder) :
                    HasBit(CellAt(g, startc).exits, DirectionOrder[k])}
    IN  IF CellAt(g, startc).kind # "Path" \/ open = {}
        THEN [panic |-> CellAt(g, startc).kind = "Wall", dir |-> 0]
        ELSE [panic |-> FALSE,
              dir |-> DirectionOrder[CHOOSE k \in open : \A l \in open : k <= l]]

\* npc.rs 101-121: the direction returned, or the panic
ShortestPath(g, startc) ==
    IF CellAt(g, startc).kind = "Wall"
    THEN [panic |-> TRUE, dir |-> 0]
    ELSE ShortestPathLoop(g, startc,
                          IF CellAt(g, startc).kind = "Path"
                          THEN CellAt(g, startc).exits ELSE 0,
                          1, UsizeMax, 0)

\* MoveAlgorithm::compute_move on a cell of the returned map
ComputeMove ==
    /\ pc = "done"
    /\ \E c \in Cells :
          \E r \in {ShortestPath(grid, c)} :
              /\ last_step' = [kind |-> "npc", player |-> 0, dir |-> r.dir,
                               from |-> c, ret |-> ~r.panic, at |-> c]
              /\ pc' = IF r.panic THEN "panic_npc" ELSE pc
    /\ UNCHANGED <<playVars, argVars, genVars, position>>

NextNpc ==
    \/ Generate
    \/ ComputeMove

SpecNpc == Init /\ [][NextNpc]_vars

--------------------------------------------------------------------------
(* Generation with a second pair of items *)

\* generate_random_map inside its item loop, map.rs 157: one pair of items
\* has been placed, every later iteration but the last was skipped at
\* map.rs 161-163, and the last iteration is about to begin
LastPair ==
    /\ NoPlay
    /\ width = MapWidth
    /\ height = MapHeight
    /\ players = MinPlayers
    /\ item_density = 40
    /\ \E d \in GameDraws \cup TurnsDraws :
          /\ travel_distance = Manhattan(d.starts[1], d.goal)
          /\ goal = d.goal
          /\ starting_points = d.starts
          /\ grid = GeneratedMap(d.goal, d.starts, d.squares)
          /\ start = d.starts[2]
          /\ cell = d.squares[2]
          /\ square1 = d.squares[1]
          /\ square2 = d.squares[2]
    /\ pending = <<>>
    /\ pairs_done = ItemPairs - 1
    /\ pc = "items"
    /\ position = <<>>
    /\ last_step = NoStep

\* Runs of generate_random_map from its first line, and from LastPair
InitPairs == Init \/ LastPair

SpecPairs == InitPairs /\ [][Next]_vars

\* generate_random_map at map.rs 171 with item_density 0: the goal, two
\* starts and their corridors, for every draw that does not underflow
ReturnedWithoutItems ==
    /\ NoPlay
    /\ width = MapWidth
    /\ height = MapHeight
    /\ players = MinPlayers
    /\ item_density = 0
    /\ travel_distance \in 1 .. MaxDist(MapWidth, MapHeight)
    /\ goal \in Cells
    /\ \E r1, r2 \in {r \in GetRandomCellWithDistance(goal, travel_distance) :
                          ~r.overflow} :
          /\ starting_points = <<r1.at, r2.at>>
          /\ start = r2.at
          /\ grid = ConnectCells(
                        ConnectCells(
                            SetCell([y \in 0 .. height - 1 |->
                                        [x \in 0 .. width - 1 |-> Wall]],
                                    goal, Goal(0)),
                            r1.at, goal),
                        r2.at, goal)
    /\ pending = <<>>
    /\ cell = NoCell
    /\ square1 = NoCell
    /\ square2 = NoCell
    /\ pairs_done = 0
    /\ pc = "done"
    /\ position = <<>>
    /\ last_step = NoStep

\* Returned maps without items, and the item loop from LastPair on
InitChase == ReturnedWithoutItems \/ LastPair

NextChase ==
    \/ DrawSquare1
    \/ EmptyCellLoop1
    \/ EmptyCellLoop2
    \/ Supplement
    \/ PlaceItems
    \/ ReturnMap
    \/ ComputeMove

SpecChase == InitChase /\ [][NextChase]_vars

--------------------------------------------------------------------------
(* get_random_cell_with_distance on its own *)

\* A map of any size up to the bounds, a target cell in it and a distance
InitDistance ==
    /\ NoPlay
    /\ width \in 1 .. MapWidth
    /\ height \in 1 .. MapHeight + 1
    /\ players = MinPlayers
    /\ item_density = 0
    /\ travel_distance \in 0 .. MapHeight + 1
    /\ grid = [y \in 0 .. height - 1 |-> [x \in 0 .. width - 1 |-> Wall]]
    /\ goal \in Cells
    /\ starting_points = <<>>
    /\ pc = "distance"
    /\ start = NoCell
    /\ pending = <<>>
    /\ cell = NoCell
    /\ square1 = NoCell
    /\ square2 = NoCell
    /\ pairs_done = 0
    /\ position = <<>>
    /\ last_step = NoStep

\* map.rs 229-245: one call get_random_cell_with_distance(goal, travel_distance)
DrawWithDistance ==
    /\ pc = "distance"
    /\ \E r \in GetRandomCellWithDistance(goal, travel_distance) :
          /\ start' = r.at
          /\ last_step' = [kind |-> "distance", player |-> 0, dir |-> 0,
                           from |-> goal, ret |-> ~r.overflow, at |-> r.at]
    /\ UNCHANGED <<playVars, argVars, grid, goal, starting_points, pc, pending,
                   cell, square1, square2, pairs_done, position>>

NextDistance == DrawWithDistance

SpecDistance == InitDistance /\ [][NextDistance]_vars

--------------------------------------------------------------------------
(* Claims *)

\* C1: in every returned map, flood fill along exit bits from every recorded
\* player start reaches the Goal cell.
C1_StartsReachGoal ==
    pc = "done" => \A s \in Starts : goal \in Reachable(grid, s)

\* A returned map with two different starts, one of them joined to the goal
\* by a corridor with an elbow, and an item corridor carved afterwards.
C1_Witness ==
    /\ pc = "done"
    /\ Cardinality(Starts) = 2
    /\ \E s \in Starts : s[1] # goal[1] /\ s[2] # goal[2]
    /\ ItemCells(grid) # {}

\* C2: in every returned map, every exit bit of a Path or Goal cell points
\* at a cell inside the grid that is not a Wall.
C2_NoDanglingExits ==
    pc = "done" =>
        \A c \in Cells : \A d \in Cardinals :
            (CellAt(grid, c).kind # "Wall" /\ HasBit(CellAt(grid, c).exits, d))
                => /\ Neighbour(c, d) \in Cells
                   /\ CellAt(grid, Neighbour(c, d)).kind # "Wall"

\* A returned map holding a crossing (a cell with at least three exits) and
\* a Goal with exits.
C2_Witness ==
    /\ pc = "done"
    /\ CellAt(grid, goal).exits # 0
    /\ \E c \in Cells :
          Cardinality({d \in Cardinals : HasBit(CellAt(grid, c).exits, d)}) >= 3

\* C3: wherever generate_random_map calls get_random_cell_with_distance (the
\* target is the goal, the distance is in 1..=min(width,height)*3/4), every
\* possible result is inside the grid at Manhattan distance exactly d from
\* the target, and no subtraction goes below zero.
C3_ExactDistance ==
    (pc = "starts" /\ Len(starting_points) < players) =>
        \A r \in GetRandomCellWithDistance(goal, travel_distance) :
            /\ ~r.overflow
            /\ r.at \in Cells
            /\ Manhattan(r.at, goal) = travel_distance

\* C4: while get_random_empty_cell runs, its loop can make progress: the
\* iteration either returns or draws again, whatever cell was drawn.
C4_EmptyCellReturns ==
    pc \in {"empty1", "empty2"} => ENABLED <<EmptyCellLoop1 \/ EmptyCellLoop2>>_vars

\* C5: once the goal has been placed, during and after generation, exactly
\* one cell is the Goal variant and it is the cell at the recorded goal.
C5_UniqueGoal ==
    pc # "goal" => CellsOfKind(grid, "Goal") = {goal}

\* A carving step has just run through the Goal cell: the Goal has exits and
\* connect_cells is still running.
C5_Witness ==
    /\ pc \in {"connect_start", "connect_items"}
    /\ pending # <<>>
    /\ CellAt(grid, goal).exits # 0
    /\ CellAt(grid, goal).kind = "Goal"

\* C6: in every completed map the shortest route along exit bits from each
\* player's start to the Goal has exactly travel_distance steps.
C6_RouteLengthIsDistance ==
    pc = "done" =>
        \A s \in Starts : RouteLength(grid, s, goal) = travel_distance

\* A completed map with an item corridor that touches the start-to-goal
\* network (some item corridor cell carries more than its own exits).
C6_Witness ==
    /\ pc = "done"
    /\ pairs_done = 1
    /\ ItemCells(grid) # {}
    /\ travel_distance >= 2
    /\ \E c \in ItemCells(grid) : goal \in Reachable(grid, c)

\* C7: for generate_random_map(10, 10, 3, 0., 5) the three recorded start
\* coordinates are pairwise distinct.
C7_DistinctStarts ==
    (pc = "done" /\ width = TestWidth /\ height = TestHeight
        /\ players = TestPlayers /\ travel_distance = TestDistance)
        => Cardinality(Starts) = TestPlayers

\* C8: in every returned map every Path cell is reachable from the Goal
\* along exit bits.
C8_PathCellsConnected ==
    pc = "done" => CellsOfKind(grid, "Path") \subseteq Reachable(grid, goal)

\* C9: Player::step from a Path or Goal cell in a cardinal direction that is
\* not in the cell's exit mask returns false and leaves the position unchanged.
C9_StepNeedsExit ==
    (last_step.kind = "player"
        /\ CellAt(grid, last_step.from).kind # "Wall"
        /\ ~HasBit(CellAt(grid, last_step.from).exits, last_step.dir))
        => /\ pc = "game"
           /\ last_step.ret = FALSE
           /\ position[last_step.player] = last_step.from

\* C10: Coordinates::step from a cell on the grid edge it is asked to cross
\* returns false and leaves the coordinates unchanged; otherwise it moves
\* exactly one cell in the direction, stays inside the grid and returns true.
C10_CoordinatesStep ==
    last_step.kind = "coord" =>
        LET f == last_step.from
            d == last_step.dir
            onEdge == \/ d = NORTH /\ f[2] = height - 1
                      \/ d = SOUTH /\ f[2] = 0
                      \/ d = EAST /\ f[1] = width - 1
                      \/ d = WEST /\ f[1] = 0
        IN  IF onEdge
            THEN last_step.ret = FALSE /\ position[1] = f
            ELSE /\ last_step.ret = TRUE
                 /\ position[1] = Neighbour(f, d)
                 /\ position[1] \in Cells

\* Coordinates::step has refused to leave the grid over its north edge, on a
\* grid more than one cell high.
C10_Witness ==
    /\ last_step.kind = "coord"
    /\ last_step.dir = NORTH
    /\ last_step.from[2] = height - 1
    /\ height > 1
    /\ last_step.ret = FALSE

--------------------------------------------------------------------------
(* Claims on the game *)

RECURSIVE Occurrences(_, _)
Occurrences(seq, id) ==
    IF seq = <<>> THEN 0
    ELSE (IF seq[1] = id THEN 1 ELSE 0) + Occurrences(Tail(seq), id)

\* The number of places item `id` is in: map cells and inventory slots
Holders(g, inv, id) ==
    Cardinality({c \in Cells : CellAt(g, c).item = id})
        + Occurrences(inv[1], id) + Occurrences(inv[2], id)

\* The number of items on the map and in the inventories
TotalItems(g, inv) == Cardinality(ItemCells(g)) + Len(inv[1]) + Len(inv[2])

\* C11: in every game state no item is in two places (one cell or one
\* inventory slot holds it); a step that empties a cell's item slot appends
\* that item to the inventory of the player who stepped onto the cell, in the
\* same step; and the number of items on the map and in the inventories never
\* increases.
C11_ItemsHaveOneHolder ==
    /\ [](pc = "game" => \A id \in DOMAIN items : Holders(grid, inventory, id) <= 1)
    /\ [][pc = "game" =>
            /\ TotalItems(grid', inventory') <= TotalItems(grid, inventory)
            /\ \A c \in Cells :
                  CellAt(grid', c).item # CellAt(grid, c).item =>
                      /\ CellAt(grid', c).item = 0
                      /\ \E i \in 1 .. players :
                            /\ position'[i] = c
                            /\ last_step'.player = i
                            /\ inventory'[i] =
                                  Append(inventory[i], CellAt(grid, c).item)
            /\ \A i \in 1 .. players :
                  Len(inventory'[i]) > Len(inventory[i]) =>
                      /\ CellAt(grid, position'[i]).item # 0
                      /\ CellAt(grid', position'[i]).item = 0]_vars

\* One player has picked up both items of the map and holds them; no cell
\* holds an item any more.
C11_Witness ==
    /\ pc = "game"
    /\ ItemCells(grid) = {}
    /\ \E i \in 1 .. players : Len(inventory[i]) = 2
    /\ last_step.kind = "player"

\* C12: no step of the game changes the variant or the exit mask of any
\* cell; the item slot of a cell changes only from an item to empty, only on
\* a Path cell, and only on the cell the stepping player has just moved onto.
C12_MapFrame ==
    [][pc = "game" =>
          \A c \in Cells :
              /\ CellAt(grid', c).kind = CellAt(grid, c).kind
              /\ CellAt(grid', c).exits = CellAt(grid, c).exits
              /\ CellAt(grid', c).item # CellAt(grid, c).item =>
                    /\ CellAt(grid, c).item # 0
                    /\ CellAt(grid', c).item = 0
                    /\ CellAt(grid, c).kind = "Path"
                    /\ last_step'.kind = "player"
                    /\ last_step'.ret
                    /\ last_step'.at = c
                    /\ position'[last_step'.player] = c
                    /\ position[last_step'.player] # c]_vars

\* An item has been picked up and used, turns have ended, and the cell the
\* item lay on is an empty Path cell with its exits intact.
C12_Witness ==
    /\ pc = "game"
    /\ used > 0
    /\ game_state.active_player = 1
    /\ \E c \in Cells :
          /\ CellAt(grid, c).kind = "Path"
          /\ CellAt(grid, c).item = 0
          /\ CellAt(grid, c).exits # 0
          /\ c \in {square1, square2}

\* C13: whenever Confirm is clicked, the 'after' die of the preview (the
\* clone of the target's die with use_item_on_die applied) is the die the
\* target player has after the click, and the 'before' die is the die the
\* target had before it.
C13_PreviewIsCommit ==
    [][(pc = "game" /\ game_state.current_action = UsingItem
            /\ used' = used + 1) =>
          LET pv == WithEffect(game_state.item_preview)
              target == pv.target_player + 1
          IN  /\ pv.effect[1] = dice[target]
              /\ pv.effect[2] = dice'[target]
              /\ \A i \in 1 .. players : i # target => dice'[i] = dice[i]]_vars

\* The first player has confirmed an item aimed at the second player: the
\* second player's die is no longer the fair die, the first player's still
\* is, and the turn has passed on.
C13_Witness ==
    /\ pc = "game"
    /\ used = 1
    /\ dice[1] = FairDie
    /\ dice[2] # FairDie
    /\ game_state.active_player = 1

\* C14: a frame that computes the item preview, and a frame in which Cancel
\* is clicked, leave every die and every inventory as they were; after the
\* Cancel click the current action is HasMoved.
C14_CancelFrame ==
    [][(pc = "game" /\ game_state.current_action = UsingItem
            /\ used' = used) =>
          /\ dice' = dice
          /\ inventory' = inventory
          /\ game_state'.item_preview.effect # <<>>
          /\ game_state'.item_preview.effect[1] =
                dice[game_state.item_preview.target_player + 1]
          /\ game_state'.current_action \in {UsingItem, HasMoved}]_vars

\* The preview of an item aimed at the other player was computed and then
\* cancelled: the action is HasMoved, the preview still holds both dice, and
\* they differ.
C14_Witness ==
    /\ pc = "game"
    /\ game_state.current_action = HasMoved
    /\ game_state.item_preview.effect # <<>>
    /\ game_state.item_preview.target_player # game_state.item_preview.source_player
    /\ game_state.item_preview.effect[1] # game_state.item_preview.effect[2]
    /\ used = 0

--------------------------------------------------------------------------
(* Claims on dice and transforms *)

\* the probability of face f: weight.norm_sqr()
Probability(weights, f) == NormSqr(weights[f])

\* the sum of the probabilities of faces 1 .. n
RECURSIVE Cumulative(_, _)
Cumulative(weights, n) ==
    IF n = 0 THEN RealZero
    ELSE RealAdd(Cumulative(weights, n - 1), Probability(weights, n))

\* the sum of the f64 probabilities of faces 1 .. n, as a real number
RECURSIVE CumulativeF64(_, _)
CumulativeF64(weights, n) ==
    IF n = 0 THEN RealZero
    ELSE RealAdd(CumulativeF64(weights, n - 1), NormSqrF64(weights[n]))

\* C15: starting from the fair die, after any sequence of uses of single,
\* double and pair transfer items, the squared magnitudes of the six weights
\* of the die sum to 1.
C15_DieStaysNormalised ==
    pc = "die" => TotalNormSqr(dice[1]) = RealOne

\* Two items have been used on the fair die, the second a double transfer;
\* the die is no longer fair and one face has lost all its weight.
C15_Witness ==
    /\ pc = "die"
    /\ used = 2
    /\ items[1].item_type = "DoubleWeightTransfer"
    /\ dice[1] # FairDie
    /\ \E f \in Faces : Probability(dice[1], f) = RealZero

\* C16: the transform of every single transfer item (superimpose_pair(to,
\* from, t), to # from, t in Strengths) is unitary, and so is the transform of
\* every double and pair item (combined_with of two such transforms) and
\* both of its factors: the debug assertions on is_unitary hold.
C16_TransformsAreUnitary ==
    (pc = "transform" /\ items # <<>>) =>
        LET item == items[1]
            full == item.full
        IN  /\ IsUnitary(item.transform)
            /\ item.item_type = "DoubleWeightTransfer" =>
                  /\ IsUnitary(SuperimposePair(full[1], full[3], full[5]))
                  /\ IsUnitary(SuperimposePair(full[1], full[2], full[4]))
            /\ item.item_type = "WeightTransferPair" =>
                  /\ IsUnitary(SuperimposePair(full[5], full[6], full[4]))
                  /\ IsUnitary(SuperimposePair(full[2], full[3], full[1]))

\* A double transfer item with strengths 2/3 and 18/25 has been made.
C16_Witness ==
    /\ pc = "transform"
    /\ items # <<>>
    /\ items[1].item_type = "DoubleWeightTransfer"
    /\ items[1].full[4] = Ratio(2, 3)
    /\ items[1].full[5] = Ratio(18, 25)
    /\ items[1].transform # Identity

\* C17: applying WeightTransform::identity() to a weight vector returns the
\* same six weights.
C17_IdentityApply ==
    [][(pc = "transform" /\ rolled'.call = "identity" /\ used' = used + 1)
          => dice' = dice]_vars

\* The identity has been applied to a weight vector that is not normalised
\* and has imaginary parts.
C17_Witness ==
    /\ pc = "transform"
    /\ rolled.call = "identity"
    /\ used = 1
    /\ TotalNormSqr(dice[1]) # RealOne
    /\ \E f \in Faces : dice[1][f][2] # RealZero

\* C18: applying the transform of a double or pair item, a.combined_with(b),
\* to a weight vector gives a.apply(b.apply(w)): for new_double(from1, s1,
\* from2, s2, to) the transfer from from2 is applied first, then the one from
\* from1; for new_pair the second transfer is applied first.
C18_CombinedAppliesArgumentFirst ==
    [][(pc = "transform" /\ rolled'.call = "use_item_on_die"
            /\ used' = used + 1) =>
          LET item == items[1]
              full == item.full
              w == dice[1]
          IN  /\ item.item_type = "DoubleWeightTransfer" =>
                    dice'[1] = Apply(SuperimposePair(full[1], full[3], full[5]),
                                   Apply(SuperimposePair(full[1], full[2], full[4]), w))
              /\ item.item_type = "WeightTransferPair" =>
                    dice'[1] = Apply(SuperimposePair(full[5], full[6], full[4]),
                                   Apply(SuperimposePair(full[2], full[3], full[1]), w))]_vars

\* A double transfer item whose two transfers do not commute has been applied
\* to a weight vector with imaginary parts.
C18_Witness ==
    /\ pc = "transform"
    /\ rolled.call = "use_item_on_die"
    /\ items[1].item_type = "DoubleWeightTransfer"
    /\ \E f \in Faces : dice[1][f][2] # RealZero
    /\ LET full == items[1].full
           a == SuperimposePair(full[1], full[3], full[5])
           b == SuperimposePair(full[1], full[2], full[4])
       IN  MatrixProduct(a, b) # MatrixProduct(b, a)

C20_FullTransfer ==
    [][(pc = "die" /\ dice[1] = FairDie /\ used' = used + 1
            /\ items'[1].transform = SuperimposePair(1, 2, RealOne)) =>
          /\ Cumulative(dice'[1], Sides) = RealOne
          /\ \A f \in 3 .. Sides : Probability(dice'[1], f) = Ratio(1, Sides)
          /\ Probability(dice'[1], 1) = Ratio(1, 3)
          /\ Probability(dice'[1], 2) = RealZero
          /\ RealAdd(Probability(dice'[1], 1), Probability(dice'[1], 2))
                = Ratio(2, Sides)]_vars

\* The single transfer item from face 2 to face 1 with strength 1 has been
\* used on the fair die, once.
C20_Witness ==
    /\ pc = "die"
    /\ used = 1
    /\ items[1].transform = SuperimposePair(1, 2, RealOne)
    /\ dice[1] = Apply(SuperimposePair(1, 2, RealOne), FairDie)
    /\ dice[1] # FairDie

--------------------------------------------------------------------------
(* Claims on items, automated players and turns *)

\* the destination and source faces of an item, from its description
ItemFaces(item) ==
    LET full == item.full
    IN  CASE item.item_type = "WeightTransfer" -> <<full[3], full[2]>>
          [] item.item_type = "DoubleWeightTransfer" -> <<full[1], full[2], full[3]>>
          [] item.item_type = "WeightTransferPair" ->
                <<full[5], full[6], full[2], full[3]>>

\* C21: in every item made by random_single, random_double and random_pair
\* no face number appears twice among the destination and source faces of
\* the item (in particular from # to in each transfer).
C21_ItemFacesDistinct ==
    (pc = "transform" /\ items # <<>>) =>
        LET faces == ItemFaces(items[1])
        IN  \A i, j \in 1 .. Len(faces) : i # j => faces[i] # faces[j]

\* C22: on a Path cell of a returned map shortest_path does not panic and
\* returns a direction of the cell's exit mask whose neighbour has the least
\* distance to the goal among the neighbours through exits; among several
\* such exits it returns the first in the order North, East, South, West.
C22_ShortestPathPicksMinimum ==
    (last_step.kind = "npc" /\ CellAt(grid, last_step.from).kind = "Path") =>
        LET c == last_step.from
            exits == CellAt(grid, c).exits
            open == {k \in 1 .. Len(DirectionOrder) : HasBit(exits, DirectionOrder[k])}
            Dist(k) == DistanceToGoal(grid, Neighbour(c, DirectionOrder[k]))
        IN  /\ last_step.ret
            /\ \E k \in open :
                  /\ last_step.dir = DirectionOrder[k]
                  /\ \A l \in open : Dist(k) <= Dist(l)
                  /\ \A l \in open : l < k => Dist(l) > Dist(k)

\* C23: when Player::step rejects the direction a human player chose during
\* the Moving action, the attempted move is dropped: no move stays pending,
\* so the next direction key is read and the turn can go on
C23_RejectedMoveIsDropped ==
    (/\ pc = "game"
     /\ last_step.kind = "player"
     /\ ~last_step.ret
     /\ game_state.current_action.kind = "Moving")
        => game_state.current_move = 0

\* C24: whenever a player is the active player with action WaitForInput, that
\* player's move history is empty, whichever way their previous turn ended
C24_HistoryCoversTurn ==
    (pc = "game" /\ game_state.current_action.kind = "WaitForInput")
        => /\ moves[game_state.active_player + 1] = <<>>
           /\ LastMove(moves[game_state.active_player + 1]) = 0

\* C25: the game enters the UsingItem action only from the HasMoved action
C25_UsingItemOnlyAfterMove ==
    [][(/\ pc = "game"
        /\ game_state.current_action.kind # "UsingItem"
        /\ game_state'.current_action.kind = "UsingItem")
          => game_state.current_action.kind = "HasMoved"]_vars

--------------------------------------------------------------------------
(* Claims on carving and item placement *)

\* The cells connect_cells(s, e) walks: row s.y from s.x to e.x, then column
\* e.x from s.y to e.y
Route(s, e) ==
    LET dx == Abs(e[1] - s[1])
        dy == Abs(e[2] - s[2])
        sx == IF e[1] < s[1] THEN -1 ELSE 1
        sy == IF e[2] < s[2] THEN -1 ELSE 1
    IN  [k \in 1 .. dx + dy + 1 |->
            IF k - 1 <= dx
            THEN <<s[1] + (k - 1) * sx, s[2]>>
            ELSE <<e[1], s[2] + (k - 1 - dx) * sy>>]

\* The exit bit that leads from a cell to the adjacent cell b
Toward(a, b) == CHOOSE d \in Cardinals : Neighbour(a, d) = b

\* The exit bits joining the k-th cell of a route to the cells before and
\* after it
Joints(route, k) ==
    BitOr(IF k > 1 THEN Toward(route[k], route[k - 1]) ELSE 0,
          IF k < Len(route) THEN Toward(route[k], route[k + 1]) ELSE 0)

\* The grid g with the route from s to e opened and nothing else changed
Joined(g, s, e) ==
    LET route == Route(s, e)
    IN  [y \in 0 .. height - 1 |-> [x \in 0 .. width - 1 |->
            LET old == g[y][x]
                on == {k \in 1 .. Len(route) : route[k] = <<x, y>>}
            IN  IF on = {} THEN old
                ELSE LET bits == Joints(route, CHOOSE k \in on : TRUE)
                     IN  IF old.kind = "Wall"
                         THEN [kind |-> "Path", exits |-> bits, item |-> 0]
                         ELSE [old EXCEPT !.exits = BitOr(old.exits, bits)]]]

\* C26: carving is monotonic: over every step of a generation run each
\* cell's exit mask keeps all its bits, no non-Wall cell becomes a Wall, the
\* Goal stays the Goal, and a supplement_cell call on a Path cell that holds
\* an item leaves the item there
C26_CarvingIsMonotonic ==
    [][\A c \in Cells :
          LET old == CellAt(grid, c)
              new == CellAt(grid', c)
          IN  new # old =>
                  /\ BitAnd(old.exits, new.exits) = old.exits
                  /\ old.kind # "Wall" => new.kind # "Wall"
                  /\ old.kind = "Goal" => new.kind = "Goal"
                  /\ (pending # <<>> /\ old.item # 0) => new.item = old.item]_vars

\* The corridor of the second pair of items has been carved through the
\* cell (1, 1), which holds an item of the first pair and had one exit
C26_Witness ==
    /\ pc = "connect_items"
    /\ pending = <<>>
    /\ pairs_done > 0
    /\ CellAt(grid, <<1, 1>>).item = Item2(0)
    /\ CellAt(grid, <<1, 1>>).exits \notin Cardinals

\* C27: connect_cells(start, end) with start # end changes only the cells of
\* the L-shaped route, makes each of them non-Wall and adds exactly the exit
\* bits joining consecutive route cells, so that start and end are
\* |dx| + |dy| steps apart along exit bits
C27_ConnectCellsCarvesRoute ==
    /\ (pc = "connect_start" /\ pending = ConnectOps(start, goal))
          => /\ ConnectCells(grid, start, goal) = Joined(grid, start, goal)
             /\ RouteLength(ConnectCells(grid, start, goal), start, goal)
                    = Manhattan(start, goal)
    /\ (pc = "connect_items" /\ pending = ConnectOps(square1, square2))
          => /\ ConnectCells(grid, square1, square2) = Joined(grid, square1, square2)
             /\ RouteLength(ConnectCells(grid, square1, square2), square1, square2)
                    = Manhattan(square1, square2)

\* connect_cells is called for two item cells that share neither row nor
\* column and whose elbow cell is already open
C27_Witness ==
    /\ pc = "connect_items"
    /\ pending = ConnectOps(square1, square2)
    /\ square1[1] # square2[1]
    /\ square1[2] # square2[2]
    /\ CellAt(grid, <<square2[1], square1[2]>>).kind # "Wall"

\* C28: after every connect_cells call a non-Wall cell has the exit bit
\* toward an adjacent cell exactly when that cell is non-Wall and has the
\* opposite exit bit
C28_ExitsAreSymmetric ==
    (pending = <<>> /\ pc \in {"connect_start", "connect_items", "done"}) =>
        \A c \in CellsOfKind(grid, "Path") \cup CellsOfKind(grid, "Goal") :
            \A d \in Cardinals :
                Neighbour(c, d) \in Cells =>
                    \A o \in {o \in Cardinals : DirectionsAreOpposite(d, o)} :
                        HasBit(CellAt(grid, c).exits, d)
                            <=> /\ CellAt(grid, Neighbour(c, d)).kind # "Wall"
                                /\ HasBit(CellAt(grid, Neighbour(c, d)).exits, o)

\* The connect_cells call of an item pair has returned and left a crossing
\* of four corridors
C28_Witness ==
    /\ pc = "connect_items"
    /\ pending = <<>>
    /\ \E c \in Cells : CellAt(grid, c).exits = 15

\* C29: place_item never panics during generate_random_map, and in the
\* returned map every item lies on a Path cell that is neither the Goal nor
\* a player's start cell
C29_ItemsOnFreePathCells ==
    /\ pc # "panic_place"
    /\ pc = "done" =>
          \A c \in ItemCells(grid) :
              /\ CellAt(grid, c).kind = "Path"
              /\ c # goal
              /\ c \notin Starts

\* A returned map with the items of two pairs
C29_Witness ==
    /\ pc = "done"
    /\ Cardinality(ItemCells(grid)) = 4

\* C30: when the two cells drawn in one iteration of the item loop coincide,
\* the iteration ends without carving and without placing an item, and
\* another iteration is not made in its place; a returned map holds at most
\* 2 * floor(round(width * height * item_density) / 2) items
C30_CoincidingSquaresSkipped ==
    [][/\ (/\ pc = "empty2"
           /\ CellAt(grid, cell).kind # "Goal"
           /\ cell \notin Starts
           /\ cell = square1)
             => /\ pc' = "items"
                /\ pairs_done' = pairs_done + 1
                /\ grid' = grid
                /\ pending' = <<>>
       /\ pc' = "done" => Cardinality(ItemCells(grid')) <= 2 * ItemPairs]_vars

\* A returned map with fewer items than that, after an iteration whose two
\* cells coincided
C30_Witness ==
    /\ pc = "done"
    /\ square1 = square2
    /\ ItemPairs > 0
    /\ Cardinality(ItemCells(grid)) < 2 * ItemPairs

--------------------------------------------------------------------------
(* Claims on moving *)

\* The step of the game in which the active player's position changes
Stepped == pc = "game" /\ position' # position

\* C31: a successful step appends its direction to the move history only if
\* it differs from the last recorded move; no history holds two equal
\* consecutive entries, and after a successful step the last entry is the
\* direction of that step
C31_HistoryHasNoRepeats ==
    [][/\ \A i \in 1 .. Len(moves') : \A k \in 1 .. Len(moves'[i]) - 1 :
             moves'[i][k] # moves'[i][k + 1]
       /\ Stepped =>
             LET i == game_state.active_player + 1
                 step == last_step'.dir
                 last == IF moves[i] = <<>> THEN 0 ELSE moves[i][Len(moves[i])]
             IN  /\ moves' = IF step = last THEN moves
                              ELSE [moves EXCEPT ![i] = Append(@, step)]
                 /\ moves'[i][Len(moves'[i])] = step]_vars

\* Player one walked East, West and West again: the second step West was
\* not recorded
C31_Witness ==
    /\ pc = "game"
    /\ moves[1] = <<EAST, WEST>>
    /\ position[1] = goal
    /\ last_step.dir = WEST

\* C32: in the Moving action with no move pending, a direction key opposite
\* to the player's last move is discarded on a Path cell with more than one
\* exit (nothing is attempted, no move becomes pending, the player stays);
\* a step in that direction is attempted only from a cell with one exit
C32_NoDoublingBack ==
    [][(/\ pc = "game"
        /\ game_state.current_action.kind = "Moving"
        /\ game_state.current_move = 0
        /\ moves[game_state.active_player + 1] # <<>>
        /\ \/ last_step' # last_step
           \/ position' # position
           \/ game_state'.current_move # 0)
          => \/ last_step'.dir
                  # OppositeDirection(LastMove(moves[game_state.active_player + 1]))
             \/ CellAt(grid, position[game_state.active_player + 1]).exits
                  \in Cardinals]_vars

\* Player one turned round in the dead end (2, 0)
C32_Witness ==
    /\ pc = "game"
    /\ last_step.kind = "player"
    /\ last_step.ret
    /\ last_step.from = <<2, 0>>
    /\ last_step.dir = WEST
    /\ moves[1] = <<EAST, WEST>>
    /\ position[1] = <<1, 0>>

\* The exits of the cell the active player has just stepped onto, without
\* the way back
Onward ==
    LET here == CellAt(grid', position'[game_state.active_player + 1])
        back == CHOOSE o \in Cardinals : DirectionsAreOpposite(last_step'.dir, o)
    IN  IF HasBit(here.exits, back) THEN here.exits - back ELSE here.exits

SteppedOntoPath ==
    /\ Stepped
    /\ CellAt(grid', position'[game_state.active_player + 1]).kind = "Path"

--------------------------------------------------------------------------
(* Claims on items in play and the end of the game *)

\* The step of the game in which Confirm is clicked in the item preview
Confirmed ==
    /\ pc = "game"
    /\ game_state.current_action = UsingItem
    /\ used' = used + 1

Winners(gs) == {gs.winners[j] : j \in 1 .. Len(gs.winners)}

\* C35: confirming an item use removes the previewed item from the source
\* player's inventory, applies it to the target player's die only, leaves
\* every other die and inventory as they were, and ends the source player's
\* turn: another player is active and the action is WaitForInput
C35_ConfirmUsesItemAndEndsTurn ==
    [][Confirmed =>
          LET pv == game_state.item_preview
              source == pv.source_player + 1
              target == pv.target_player + 1
              index == pv.item_index + 1
              item == items[inventory[source][index]]
          IN  /\ Len(inventory'[source]) = Len(inventory[source]) - 1
              /\ \A k \in 1 .. Len(inventory'[source]) :
                    inventory'[source][k]
                        = inventory[source][IF k < index THEN k ELSE k + 1]
              /\ \A i \in 1 .. players : i # source => inventory'[i] = inventory[i]
              /\ dice'[target] = UseItemOnDie(item, dice[target])
              /\ \A i \in 1 .. players : i # target => dice'[i] = dice[i]
              /\ pc' = "game"
              /\ game_state'.current_action = WaitForInput
              /\ game_state'.active_player \in (0 .. players - 1) \ Winners(game_state)
              /\ players > 1 => game_state'.active_player # game_state.active_player]_vars

\* C36: when a turn ends, by Enter or by confirming an item use, while all
\* players but one are in winners, game_over becomes true and no player is
\* given a turn
C36_GameEndsWithOnePlayerLeft ==
    [][(pc = "game" /\ Len(game_state.winners) = players - 1) =>
          /\ Confirmed => game_state'.game_over
          /\ ~(/\ game_state.current_action # WaitForInput
               /\ game_state'.current_action = WaitForInput)]_vars

\* C37: whenever end_turn runs, some player is not in winners, so its loop
\* finds the next active player and returns
C37_EndTurnReturns == pc # "end_turn_loop"

\* C38: no player is in winners twice, a player in winners is never the
\* active player in the WaitForInput or Moving action, and Player::step is
\* never called for a player standing on the Goal
C38_WinnersStayPut ==
    pc = "game" =>
        /\ \A j, k \in 1 .. Len(game_state.winners) :
              game_state.winners[j] = game_state.winners[k] => j = k
        /\ game_state.current_action.kind \in {"WaitForInput", "Moving"}
              => game_state.active_player \notin Winners(game_state)
        /\ last_step.kind = "player" => last_step.from # goal

\* Player one is on the goal, in winners, and player two is walking
C38_Witness ==
    /\ pc = "game"
    /\ game_state.winners = <<0>>
    /\ position[1] = goal
    /\ game_state.active_player = 1
    /\ game_state.current_action.kind = "Moving"
    /\ last_step.kind = "player"
    /\ last_step.player = 2

--------------------------------------------------------------------------
(* Claims on the walk of a computer player and on start cells *)

\* The cells a player can stand on: those reached from a start along exits
Occupiable == UNION {Reachable(grid, s) : s \in Starts}

\* The number of moves a player makes from c to the Goal when every move is
\* the one shortest_path returns; -1 when a call panics or the walk is
\* longer than the map has cells
RECURSIVE Follow(_, _, _)
Follow(g, c, n) ==
    IF c = goal THEN n
    ELSE IF n > width * height THEN -1
    ELSE LET r == ShortestPath(g, c)
         IN  IF r.panic \/ r.dir = 0 THEN -1
             ELSE Follow(g, Neighbour(c, r.dir), n + 1)

\* C39: on a generated map, from every cell other than the Goal that a
\* player can occupy, shortest_path returns without a panic a direction
\* leading to a cell one step nearer to the Goal, and following the returned
\* moves reaches the Goal in exactly distance-to-goal steps
C39_ShortestPathDescends ==
    (/\ last_step.kind = "npc"
     /\ last_step.from # goal
     /\ last_step.from \in Occupiable)
        => /\ last_step.ret
           /\ last_step.dir \in Cardinals
           /\ DistanceToGoal(grid, Neighbour(last_step.from, last_step.dir))
                  = DistanceToGoal(grid, last_step.from) - 1
           /\ Follow(grid, last_step.from, 0) = DistanceToGoal(grid, last_step.from)

\* shortest_path was called on a cell with a choice of exits, at least two
\* steps from the Goal
C39_Witness ==
    /\ last_step.kind = "npc"
    /\ last_step.ret
    /\ last_step.from \in Occupiable
    /\ CellAt(grid, last_step.from).exits \notin Cardinals
    /\ DistanceToGoal(grid, last_step.from) >= 2

\* C40: whenever 2 * d <= height, get_random_cell_with_distance(target, d)
\* never subtracts below zero and returns a cell of the grid at Manhattan
\* distance exactly d from the target; its possible results are the cells
\* (x, y0 - dy) and (x, y0 + dy) with |x - x0| <= d and dy = d - |x - x0|
\* that lie in the grid
C40_DistanceIsExact ==
    (pc = "distance" /\ 2 * travel_distance <= height) =>
        /\ \A r \in GetRandomCellWithDistance(goal, travel_distance) : ~r.overflow
        /\ {r.at : r \in GetRandomCellWithDistance(goal, travel_distance)}
              = {c \in Cells : Manhattan(c, goal) = travel_distance}
        /\ last_step.kind = "distance" =>
              /\ last_step.ret
              /\ last_step.at \in Cells
              /\ Abs(last_step.at[1] - goal[1]) + Abs(last_step.at[2] - goal[2])
                    = travel_distance

\* A call with the target in the top row, where y0 + dy is outside the grid,
\* that returned a cell in another column
C40_Witness ==
    /\ pc = "distance"
    /\ last_step.kind = "distance"
    /\ last_step.ret
    /\ travel_distance = 2
    /\ 2 * travel_distance <= height
    /\ goal[2] = height - 1
    /\ last_step.at[1] # goal[1]
    /\ last_step.at[2] = goal[2] - 1

====================
